---- MODULE Spec2Model ----
(***************************************************************************)
(* Model of the client directory of src/app.py: phone normalisation,       *)
(* IBAN bank detection, pipe-file ingestion, and the request handlers that *)
(* read and replace the in-memory directory (clients_database) and its     *)
(* aggregate counters (upload_stats).                                      *)
(*                                                                         *)
(* A Python str is a sequence of one-character strings; the character      *)
(* U+1F3E6 (bank emoji) is written as the single element "U+1F3E6", and a  *)
(* control character without a TLA+ escape likewise ("U+000B" is \x0b).    *)
(* Python's None is the value None below, which differs from every str.    *)
(* The alphabet is ASCII plus the accented letters of French (AccentLower, *)
(* AccentUpper): Unicode digits and white space beyond ASCII, which \d, \s *)
(* and str.strip() also accept, and the letters whose upper case is not    *)
(* one character, are outside the alphabet.                                *)
(***************************************************************************)
EXTENDS Integers, Sequences, FiniteSets, TLC

VARIABLES
  clients_database,  \* dict: canonical phone -> client record
  upload_stats,      \* dict: total_clients, last_upload, filename, banks_detected
  clock,             \* seconds elapsed on the wall clock read by datetime.now()
  pc,                \* per request thread: the statement it is about to execute
  frame,             \* per request thread: the locals of the running handler
  ret                \* per request thread: the last completed call and its outcome

vars == <<clients_database, upload_stats, clock, pc, frame, ret>>

\* ---------------------------------------------------------------- str helpers

None == <<"None">>

Digits == {"0","1","2","3","4","5","6","7","8","9"}

DigitChars == <<"0","1","2","3","4","5","6","7","8","9">>

\* the ASCII characters c with c.isspace(): str.strip() removes them and \s
\* matches them (\x0b and \x1c..\x1f included)
Whitespace ==
  {" ", "\t", "\n", "\r", "\f", "U+000B", "U+001C", "U+001D", "U+001E", "U+001F"}

AsciiLower == <<"a","b","c","d","e","f","g","h","i","j","k","l","m","n","o","p","q","r","s","t","u","v","w","x","y","z">>

AsciiUpper == <<"A","B","C","D","E","F","G","H","I","J","K","L","M","N","O","P","Q","R","S","T","U","V","W","X","Y","Z">>

AccentLower == <<"à","â","ä","ç","é","è","ê","ë","î","ï","ô","ö","ù","û","ü">>

AccentUpper == <<"À","Â","Ä","Ç","É","È","Ê","Ë","Î","Ï","Ô","Ö","Ù","Û","Ü">>

Min(S) == CHOOSE x \in S : \A y \in S : x <= y

RECURSIVE lstrip(_)
lstrip(s) ==
  IF s = <<>> THEN s
  ELSE IF Head(s) \in Whitespace THEN lstrip(Tail(s)) ELSE s

RECURSIVE rstrip(_)
rstrip(s) ==
  IF s = <<>> THEN s
  ELSE IF s[Len(s)] \in Whitespace THEN rstrip(SubSeq(s, 1, Len(s) - 1)) ELSE s

\* str.strip()
strip(s) == rstrip(lstrip(s))

\* str.split(sep) for a one-character separator
RECURSIVE split(_, _)
split(s, sep) ==
  LET idx == {i \in 1..Len(s) : s[i] = sep}
  IN  IF idx = {} THEN <<s>>
      ELSE LET i == Min(idx)
           IN  <<SubSeq(s, 1, i - 1)>> \o split(SubSeq(s, i + 1, Len(s)), sep)

\* str.split(sep, 1)
split1(s, sep) ==
  LET idx == {i \in 1..Len(s) : s[i] = sep}
  IN  IF idx = {} THEN <<s>>
      ELSE LET i == Min(idx)
           IN  <<SubSeq(s, 1, i - 1), SubSeq(s, i + 1, Len(s))>>

startswith(s, p) == Len(s) >= Len(p) /\ SubSeq(s, 1, Len(p)) = p

endswith(s, p) == Len(s) >= Len(p) /\ SubSeq(s, Len(s) - Len(p) + 1, Len(s)) = p

\* str.replace(c, '') for a one-character c
remove_char(s, c) == SelectSeq(s, LAMBDA x : x # c)

\* c.upper() for one character of the alphabet
upper_char(c) ==
  LET lower == AsciiLower \o AccentLower
      upper_ == AsciiUpper \o AccentUpper
  IN  IF \E i \in 1..Len(lower) : lower[i] = c
      THEN upper_[CHOOSE i \in 1..Len(lower) : lower[i] = c]
      ELSE c

\* str.upper()
upper(s) == [i \in 1..Len(s) |-> upper_char(s[i])]

AllDigits(s) == \A i \in 1..Len(s) : s[i] \in Digits

\* str.split() without argument: the maximal runs of characters that are not
\* white space
RECURSIVE words(_)
words(s) ==
  LET t == lstrip(s)
      ws == {i \in 1..Len(t) : t[i] \in Whitespace}
      n == IF ws = {} THEN Len(t) + 1 ELSE Min(ws)
  IN  IF t = <<>> THEN <<>>
      ELSE <<SubSeq(t, 1, n - 1)>> \o words(SubSeq(t, n, Len(t)))

\* sep.join(parts)
RECURSIVE join(_, _)
join(parts, sep) ==
  IF parts = <<>> THEN <<>>
  ELSE IF Len(parts) = 1 THEN parts[1]
  ELSE parts[1] \o sep \o join(Tail(parts), sep)

\* str.strip(chars)
RECURSIVE strip_chars(_, _)
strip_chars(s, chars) ==
  IF s = <<>> THEN s
  ELSE IF Head(s) \in chars THEN strip_chars(Tail(s), chars)
  ELSE IF s[Len(s)] \in chars THEN strip_chars(SubSeq(s, 1, Len(s) - 1), chars)
  ELSE s

\* the letter each accented letter of AccentLower decomposes to (NFKD), the
\* combining accent left out
AccentBase == <<"a","a","a","c","e","e","e","e","i","i","o","o","u","u","u">>

\* unicodedata.normalize("NFKD", c).encode("ascii", "ignore").decode("ascii")
\* for one character of the alphabet: an accented letter gives its base
\* letter, the bank emoji gives nothing, an ASCII character gives itself
ascii_fold(c) ==
  IF \E i \in 1..Len(AccentLower) : AccentLower[i] = c
  THEN <<AccentBase[CHOOSE i \in 1..Len(AccentLower) : AccentLower[i] = c]>>
  ELSE IF \E i \in 1..Len(AccentUpper) : AccentUpper[i] = c
  THEN <<upper_char(AccentBase[CHOOSE i \in 1..Len(AccentUpper) : AccentUpper[i] = c])>>
  ELSE IF c = "U+1F3E6" THEN <<>>
  ELSE <<c>>

RECURSIVE ascii_ignore(_)
ascii_ignore(s) ==
  IF s = <<>> THEN s ELSE ascii_fold(Head(s)) \o ascii_ignore(Tail(s))

\* the characters that [^A-Za-z0-9_.-] leaves in place
FilenameChars ==
  {AsciiLower[i] : i \in 1..Len(AsciiLower)} \cup {AsciiUpper[i] : i \in 1..Len(AsciiUpper)}
    \cup Digits \cup {"_", ".", "-"}

\* werkzeug.utils.secure_filename on a POSIX host (os.sep = "/", no altsep, no
\* Windows device names)
secure_filename(filename) ==
  LET ascii == ascii_ignore(filename)
      spaced == [i \in 1..Len(ascii) |-> IF ascii[i] = "/" THEN " " ELSE ascii[i]]
      joined == join(words(spaced), <<"_">>)
      kept == SelectSeq(joined, LAMBDA c : c \in FilenameChars)
  IN  strip_chars(kept, {".", "_"})

\* dict.get(key) on a dict literal given as its (key, value) items in source
\* order: a key written twice keeps its last value.
dict_get(items, key) ==
  LET idx == {i \in 1..Len(items) : items[i][1] = key}
  IN  IF idx = {} THEN None
      ELSE items[CHOOSE i \in idx : \A j \in idx : j <= i][2]

\* datetime.now().strftime("%d/%m/%Y %H:%M:%S"), the wall clock standing
\* c seconds after 01/01/2026 00:00:00 (c < 10)
strftime(c) ==
  <<"0","1","/","0","1","/","2","0","2","6"," ","0","0",":","0","0",":","0">>
    \o <<DigitChars[c + 1]>>

\* ------------------------------------------------------------ PhoneNormalizer

\* the list of patterns without ^33(\d{9})$
patterns_without_bare_33 ==
  << <<"0","0","3","3">>, <<"+","3","3">>, <<"0">>, <<>> >>

\* The literal prefixes of the five patterns, in the order of the list; each
\* pattern is ^prefix(\d{9})$ and each transform is '0' + group(1).
patterns ==
  << <<"0","0","3","3">>, <<"+","3","3">>, <<"3","3">>, <<"0">>, <<>> >>

\* re.match(pattern, cleaned): group(1), or None when there is no match
pattern_match(prefix, cleaned) ==
  IF /\ Len(cleaned) = Len(prefix) + 9
     /\ startswith(cleaned, prefix)
     /\ AllDigits(SubSeq(cleaned, Len(prefix) + 1, Len(cleaned)))
  THEN SubSeq(cleaned, Len(prefix) + 1, Len(cleaned))
  ELSE None

\* the for loop over patterns, from pattern i on
RECURSIVE try_patterns(_, _)
try_patterns(cleaned, i) ==
  IF i > Len(patterns) THEN None
  ELSE LET group == pattern_match(patterns[i], cleaned)
           result == <<"0">> \o group
       IN  IF group # None /\ result # <<>> /\ Len(result) = 10 /\ startswith(result, <<"0">>)
           THEN result
           ELSE try_patterns(cleaned, i + 1)

normalize_phone(phone) ==
  IF phone = <<>> \/ phone = None THEN None
  ELSE LET cleaned == SelectSeq(phone, LAMBDA c : c \in Digits \cup {"+"})
       IN  try_patterns(cleaned, 1)

\* -------------------------------------------------------------- IBANDetector

local_banks ==
  <<
    <<<<"1","0","9","0","7">>, <<"B","N","P"," ","P","a","r","i","b","a","s">>>>,
    <<<<"3","0","0","0","4">>, <<"B","N","P"," ","P","a","r","i","b","a","s">>>>,
    <<<<"3","0","0","0","1">>, <<"B","N","P"," ","P","a","r","i","b","a","s">>>>,
    <<<<"1","0","1","0","8">>, <<"B","N","P"," ","P","a","r","i","b","a","s">>>>,
    <<<<"3","0","0","0","3">>, <<"S","o","c","i","é","t","é"," ","G","é","n","é","r","a","l","e">>>>,
    <<<<"3","0","0","0","2">>, <<"S","o","c","i","é","t","é"," ","G","é","n","é","r","a","l","e">>>>,
    <<<<"2","0","0","4","1">>, <<"L","a"," ","B","a","n","q","u","e"," ","P","o","s","t","a","l","e">>>>,
    <<<<"3","0","0","5","6">>, <<"B","R","E","D">>>>,
    <<<<"1","0","1","0","7">>, <<"B","R","E","D"," ","B","a","n","q","u","e"," ","P","o","p","u","l","a","i","r","e">>>>,
    <<<<"1","0","2","7","8">>, <<"C","r","é","d","i","t"," ","M","u","t","u","e","l">>>>,
    <<<<"1","0","0","6","8">>, <<"C","r","é","d","i","t"," ","M","u","t","u","e","l"," ","A","n","j","o","u">>>>,
    <<<<"1","0","0","9","6">>, <<"C","r","é","d","i","t"," ","M","u","t","u","e","l"," ","O","c","é","a","n">>>>,
    <<<<"1","0","1","3","8">>, <<"C","r","é","d","i","t"," ","M","u","t","u","e","l"," ","M","a","i","n","e","-","A","n","j","o","u">>>>,
    <<<<"1","0","7","5","8">>, <<"C","r","é","d","i","t"," ","M","u","t","u","e","l"," ","N","o","r","d"," ","E","u","r","o","p","e">>>>,
    <<<<"1","0","5","1","8">>, <<"C","r","é","d","i","t"," ","M","u","t","u","e","l"," ","Î","l","e","-","d","e","-","F","r","a","n","c","e">>>>,
    <<<<"1","0","7","9","8">>, <<"C","r","é","d","i","t"," ","M","u","t","u","e","l"," ","D","a","u","p","h","i","n","é","-","V","i","v","a","r","a","i","s">>>>,
    <<<<"1","0","8","3","8">>, <<"C","r","é","d","i","t"," ","M","u","t","u","e","l"," ","M","i","d","i","-","A","t","l","a","n","t","i","q","u","e">>>>,
    <<<<"1","0","5","4","8">>, <<"C","r","é","d","i","t"," ","M","u","t","u","e","l"," ","C","e","n","t","r","e">>>>,
    <<<<"1","0","8","7","8">>, <<"C","r","é","d","i","t"," ","M","u","t","u","e","l"," ","S","a","v","o","i","e","-","M","o","n","t"," ","B","l","a","n","c">>>>,
    <<<<"1","0","7","3","8">>, <<"C","r","é","d","i","t"," ","M","u","t","u","e","l"," ","L","o","i","r","e","-","A","t","l","a","n","t","i","q","u","e"," ","C","e","n","t","r","e"," ","O","u","e","s","t">>>>,
    <<<<"1","0","2","0","7">>, <<"C","r","é","d","i","t"," ","M","u","t","u","e","l">>>>,
    <<<<"1","0","9","0","6">>, <<"C","I","C">>>>,
    <<<<"1","1","0","2","7">>, <<"C","I","C"," ","L","y","o","n","n","a","i","s","e"," ","d","e"," ","B","a","n","q","u","e">>>>,
    <<<<"1","1","3","1","5">>, <<"C","I","C"," ","O","u","e","s","t">>>>,
    <<<<"1","1","5","1","6">>, <<"C","I","C"," ","E","s","t">>>>,
    <<<<"1","1","7","0","6">>, <<"C","I","C"," ","S","u","d"," ","O","u","e","s","t">>>>,
    <<<<"3","0","0","6","6">>, <<"C","I","C">>>>,
    <<<<"1","0","1","0","7">>, <<"B","a","n","q","u","e"," ","P","o","p","u","l","a","i","r","e">>>>,
    <<<<"1","3","3","5","7">>, <<"B","a","n","q","u","e"," ","P","o","p","u","l","a","i","r","e"," ","A","u","v","e","r","g","n","e"," ","R","h","ô","n","e"," ","A","l","p","e","s">>>>,
    <<<<"1","1","4","5","5">>, <<"B","a","n","q","u","e"," ","P","o","p","u","l","a","i","r","e"," ","B","o","u","r","g","o","g","n","e"," ","F","r","a","n","c","h","e","-","C","o","m","t","é">>>>,
    <<<<"1","2","4","5","5">>, <<"B","a","n","q","u","e"," ","P","o","p","u","l","a","i","r","e"," ","G","r","a","n","d"," ","O","u","e","s","t">>>>,
    <<<<"1","3","1","3","5">>, <<"B","a","n","q","u","e"," ","P","o","p","u","l","a","i","r","e"," ","M","é","d","i","t","e","r","r","a","n","é","e">>>>,
    <<<<"1","3","8","2","5">>, <<"B","a","n","q","u","e"," ","P","o","p","u","l","a","i","r","e"," ","O","c","c","i","t","a","n","e">>>>,
    <<<<"1","4","4","4","5">>, <<"B","a","n","q","u","e"," ","P","o","p","u","l","a","i","r","e"," ","R","i","v","e","s"," ","d","e"," ","P","a","r","i","s">>>>,
    <<<<"1","4","5","5","9">>, <<"B","a","n","q","u","e"," ","P","o","p","u","l","a","i","r","e"," ","V","a","l"," ","d","e"," ","F","r","a","n","c","e">>>>,
    <<<<"1","7","0","6","8">>, <<"B","a","n","q","u","e"," ","P","o","p","u","l","a","i","r","e"," ","A","l","s","a","c","e"," ","L","o","r","r","a","i","n","e"," ","C","h","a","m","p","a","g","n","e">>>>,
    <<<<"1","8","3","1","5">>, <<"B","a","n","q","u","e"," ","P","o","p","u","l","a","i","r","e"," ","d","u"," ","N","o","r","d">>>>,
    <<<<"1","8","4","1","5">>, <<"B","a","n","q","u","e"," ","P","o","p","u","l","a","i","r","e">>>>,
    <<<<"1","0","6","9","5">>, <<"C","a","i","s","s","e"," ","d","'","É","p","a","r","g","n","e">>>>,
    <<<<"1","0","7","7","8">>, <<"C","a","i","s","s","e"," ","d","'","É","p","a","r","g","n","e"," ","Î","l","e","-","d","e","-","F","r","a","n","c","e">>>>,
    <<<<"1","1","3","1","5">>, <<"C","a","i","s","s","e"," ","d","'","É","p","a","r","g","n","e"," ","L","o","i","r","e","-","C","e","n","t","r","e">>>>,
    <<<<"1","2","1","3","5">>, <<"C","a","i","s","s","e"," ","d","'","É","p","a","r","g","n","e"," ","P","r","o","v","e","n","c","e","-","A","l","p","e","s","-","C","o","r","s","e">>>>,
    <<<<"1","2","5","4","8">>, <<"C","a","i","s","s","e"," ","d","'","É","p","a","r","g","n","e"," ","A","q","u","i","t","a","i","n","e"," ","P","o","i","t","o","u","-","C","h","a","r","e","n","t","e","s">>>>,
    <<<<"1","2","7","5","5">>, <<"C","a","i","s","s","e"," ","d","'","É","p","a","r","g","n","e"," ","M","i","d","i","-","P","y","r","é","n","é","e","s">>>>,
    <<<<"1","3","6","2","5">>, <<"C","a","i","s","s","e"," ","d","'","É","p","a","r","g","n","e"," ","B","r","e","t","a","g","n","e","-","P","a","y","s"," ","d","e"," ","L","o","i","r","e">>>>,
    <<<<"1","3","7","1","5">>, <<"C","a","i","s","s","e"," ","d","'","É","p","a","r","g","n","e"," ","C","ô","t","e"," ","d","'","A","z","u","r">>>>,
    <<<<"1","5","1","3","5">>, <<"C","a","i","s","s","e"," ","d","'","É","p","a","r","g","n","e"," ","B","o","u","r","g","o","g","n","e"," ","F","r","a","n","c","h","e","-","C","o","m","t","é">>>>,
    <<<<"1","5","5","8","9">>, <<"C","a","i","s","s","e"," ","d","'","É","p","a","r","g","n","e"," ","L","o","i","r","e"," ","D","r","ô","m","e"," ","A","r","d","è","c","h","e">>>>,
    <<<<"1","6","5","1","5">>, <<"C","a","i","s","s","e"," ","d","'","É","p","a","r","g","n","e"," ","G","r","a","n","d"," ","E","s","t"," ","E","u","r","o","p","e">>>>,
    <<<<"1","7","5","1","5">>, <<"C","a","i","s","s","e"," ","d","'","É","p","a","r","g","n","e"," ","H","a","u","t","s"," ","d","e"," ","F","r","a","n","c","e">>>>,
    <<<<"1","8","3","1","5">>, <<"C","a","i","s","s","e"," ","d","'","É","p","a","r","g","n","e"," ","N","o","r","m","a","n","d","i","e">>>>,
    <<<<"1","7","9","0","6">>, <<"C","a","i","s","s","e"," ","d","'","É","p","a","r","g","n","e"," ","R","h","ô","n","e"," ","A","l","p","e","s">>>>,
    <<<<"1","6","7","9","8">>, <<"I","N","G"," ","D","i","r","e","c","t">>>>,
    <<<<"1","2","5","4","8">>, <<"B","o","u","r","s","o","r","a","m","a">>>>,
    <<<<"1","7","5","1","5">>, <<"M","o","n","a","b","a","n","q">>>>,
    <<<<"1","8","2","0","6">>, <<"N","2","6">>>>,
    <<<<"1","6","9","5","8">>, <<"H","e","l","l","o"," ","B","a","n","k">>>>,
    <<<<"1","3","6","9","8">>, <<"F","o","r","t","u","n","e","o">>>>,
    <<<<"1","5","5","8","9">>, <<"B","f","o","r","B","a","n","k">>>>,
    <<<<"1","2","9","6","8">>, <<"O","r","a","n","g","e"," ","B","a","n","k">>>>,
    <<<<"3","0","0","0","2">>, <<"L","C","L"," ","-"," ","L","e"," ","C","r","é","d","i","t"," ","L","y","o","n","n","a","i","s">>>>,
    <<<<"3","0","0","0","5">>, <<"L","C","L">>>>,
    <<<<"3","0","0","2","7">>, <<"C","r","é","d","i","t"," ","C","o","o","p","é","r","a","t","i","f">>>>,
    <<<<"3","0","0","5","6">>, <<"B","R","E","D">>>>,
    <<<<"1","3","5","0","6">>, <<"C","r","é","d","i","t"," ","d","u"," ","N","o","r","d">>>>,
    <<<<"1","0","4","7","9">>, <<"B","a","n","q","u","e"," ","K","o","l","b">>>>,
    <<<<"1","0","5","2","9">>, <<"B","a","n","q","u","e"," ","N","u","g","e","r">>>>,
    <<<<"1","0","5","8","9">>, <<"B","a","n","q","u","e"," ","L","a","y","d","e","r","n","i","e","r">>>>,
    <<<<"1","0","6","0","9">>, <<"B","a","n","q","u","e"," ","R","h","ô","n","e","-","A","l","p","e","s">>>>,
    <<<<"1","0","8","6","8">>, <<"B","a","n","q","u","e"," ","T","a","r","n","e","a","u","d">>>>,
    <<<<"1","5","5","8","9">>, <<"B","a","n","q","u","e"," ","P","a","l","a","t","i","n","e">>>>,
    <<<<"1","8","3","1","5">>, <<"S","o","c","i","é","t","é"," ","M","a","r","s","e","i","l","l","a","i","s","e"," ","d","e"," ","C","r","é","d","i","t">>>>,
    <<<<"3","0","0","0","6">>, <<"H","S","B","C"," ","F","r","a","n","c","e">>>>,
    <<<<"3","0","0","0","7">>, <<"B","a","r","c","l","a","y","s">>>>,
    <<<<"1","2","7","3","9">>, <<"C","r","é","d","i","t"," ","F","o","n","c","i","e","r">>>>,
    <<<<"1","3","1","3","4">>, <<"B","a","n","q","u","e"," ","A","c","c","o","r","d">>>>,
    <<<<"1","5","1","3","5">>, <<"B","a","n","q","u","e"," ","C","a","s","i","n","o">>>>,
    <<<<"1","6","9","5","8">>, <<"R","e","v","o","l","u","t">>>>,
    <<<<"1","8","2","0","6">>, <<"N","2","6">>>>,
    <<<<"1","7","5","1","5">>, <<"Q","o","n","t","o">>>>,
    <<<<"1","2","9","6","8">>, <<"N","i","c","k","e","l">>>>
  >>

codes_ca ==
  <<
    <<<<"1","3","9","0","6">>, <<"C","r","é","d","i","t"," ","A","g","r","i","c","o","l","e"," ","C","e","n","t","r","e","-","E","s","t">>>>,
    <<<<"1","4","7","0","6">>, <<"C","r","é","d","i","t"," ","A","g","r","i","c","o","l","e"," ","A","t","l","a","n","t","i","q","u","e"," ","V","e","n","d","é","e">>>>,
    <<<<"1","8","7","0","6">>, <<"C","r","é","d","i","t"," ","A","g","r","i","c","o","l","e"," ","Î","l","e","-","d","e","-","F","r","a","n","c","e">>>>,
    <<<<"1","6","9","0","6">>, <<"C","r","é","d","i","t"," ","A","g","r","i","c","o","l","e"," ","P","y","r","é","n","é","e","s"," ","G","a","s","c","o","g","n","e">>>>,
    <<<<"1","8","2","0","6">>, <<"C","r","é","d","i","t"," ","A","g","r","i","c","o","l","e"," ","N","o","r","d","-","E","s","t">>>>,
    <<<<"1","1","7","0","6">>, <<"C","r","é","d","i","t"," ","A","g","r","i","c","o","l","e"," ","C","h","a","r","e","n","t","e"," ","P","é","r","i","g","o","r","d">>>>,
    <<<<"1","0","2","0","6">>, <<"C","r","é","d","i","t"," ","A","g","r","i","c","o","l","e"," ","N","o","r","d"," ","d","e"," ","F","r","a","n","c","e">>>>,
    <<<<"1","3","3","0","6">>, <<"C","r","é","d","i","t"," ","A","g","r","i","c","o","l","e"," ","A","q","u","i","t","a","i","n","e">>>>,
    <<<<"1","3","6","0","6">>, <<"C","r","é","d","i","t"," ","A","g","r","i","c","o","l","e"," ","C","e","n","t","r","e"," ","O","u","e","s","t">>>>,
    <<<<"1","4","5","0","6">>, <<"C","r","é","d","i","t"," ","A","g","r","i","c","o","l","e"," ","C","e","n","t","r","e"," ","L","o","i","r","e">>>>,
    <<<<"1","6","6","0","6">>, <<"C","r","é","d","i","t"," ","A","g","r","i","c","o","l","e"," ","N","o","r","m","a","n","d","i","e","-","S","e","i","n","e">>>>,
    <<<<"1","7","2","0","6">>, <<"C","r","é","d","i","t"," ","A","g","r","i","c","o","l","e"," ","A","l","s","a","c","e"," ","V","o","s","g","e","s">>>>,
    <<<<"1","7","9","0","6">>, <<"C","r","é","d","i","t"," ","A","g","r","i","c","o","l","e"," ","A","n","j","o","u"," ","M","a","i","n","e">>>>,
    <<<<"1","2","4","0","6">>, <<"C","r","é","d","i","t"," ","A","g","r","i","c","o","l","e"," ","C","h","a","r","e","n","t","e","-","M","a","r","i","t","i","m","e">>>>,
    <<<<"1","2","9","0","6">>, <<"C","r","é","d","i","t"," ","A","g","r","i","c","o","l","e"," ","F","i","n","i","s","t","è","r","e">>>>,
    <<<<"1","2","2","0","6">>, <<"C","r","é","d","i","t"," ","A","g","r","i","c","o","l","e"," ","M","o","r","b","i","h","a","n">>>>,
    <<<<"1","4","8","0","6">>, <<"C","r","é","d","i","t"," ","A","g","r","i","c","o","l","e"," ","L","a","n","g","u","e","d","o","c">>>>,
    <<<<"1","7","1","0","6">>, <<"C","r","é","d","i","t"," ","A","g","r","i","c","o","l","e"," ","L","o","i","r","e"," ","H","a","u","t","e","-","L","o","i","r","e">>>>,
    <<<<"1","1","2","0","6">>, <<"C","r","é","d","i","t"," ","A","g","r","i","c","o","l","e"," ","B","r","i","e"," ","P","i","c","a","r","d","i","e">>>>,
    <<<<"1","3","1","0","6">>, <<"C","r","é","d","i","t"," ","A","g","r","i","c","o","l","e"," ","A","l","p","e","s"," ","P","r","o","v","e","n","c","e">>>>,
    <<<<"1","4","4","0","6">>, <<"C","r","é","d","i","t"," ","A","g","r","i","c","o","l","e"," ","I","l","l","e","-","e","t","-","V","i","l","a","i","n","e">>>>,
    <<<<"1","6","1","0","6">>, <<"C","r","é","d","i","t"," ","A","g","r","i","c","o","l","e"," ","D","e","u","x","-","S","è","v","r","e","s">>>>,
    <<<<"1","6","7","0","6">>, <<"C","r","é","d","i","t"," ","A","g","r","i","c","o","l","e"," ","S","u","d"," ","R","h","ô","n","e"," ","A","l","p","e","s">>>>,
    <<<<"1","7","3","0","6">>, <<"C","r","é","d","i","t"," ","A","g","r","i","c","o","l","e"," ","S","u","d"," ","M","é","d","i","t","e","r","r","a","n","é","e">>>>,
    <<<<"1","8","1","0","6">>, <<"C","r","é","d","i","t"," ","A","g","r","i","c","o","l","e"," ","T","o","u","r","a","i","n","e"," ","P","o","i","t","o","u">>>>,
    <<<<"1","9","1","0","6">>, <<"C","r","é","d","i","t"," ","A","g","r","i","c","o","l","e"," ","C","e","n","t","r","e"," ","F","r","a","n","c","e">>>>,
    <<<<"1","2","5","0","6">>, <<"C","r","é","d","i","t"," ","A","g","r","i","c","o","l","e"," ","L","o","i","r","e"," ","O","c","é","a","n">>>>,
    <<<<"1","3","2","0","6">>, <<"C","r","é","d","i","t"," ","A","g","r","i","c","o","l","e"," ","M","i","d","i","-","P","y","r","é","n","é","e","s">>>>,
    <<<<"1","4","2","0","6">>, <<"C","r","é","d","i","t"," ","A","g","r","i","c","o","l","e"," ","N","o","r","m","a","n","d","i","e">>>>,
    <<<<"1","5","2","0","6">>, <<"C","r","é","d","i","t"," ","A","g","r","i","c","o","l","e"," ","S","a","v","o","i","e"," ","M","o","n","t"," ","B","l","a","n","c">>>>,
    <<<<"1","6","2","0","6">>, <<"C","r","é","d","i","t"," ","A","g","r","i","c","o","l","e"," ","F","r","a","n","c","h","e","-","C","o","m","t","é">>>>,
    <<<<"1","7","6","0","6">>, <<"C","r","é","d","i","t"," ","A","g","r","i","c","o","l","e"," ","L","o","r","r","a","i","n","e">>>>,
    <<<<"1","8","4","0","6">>, <<"C","r","é","d","i","t"," ","A","g","r","i","c","o","l","e"," ","V","a","l"," ","d","e"," ","F","r","a","n","c","e">>>>,
    <<<<"1","9","4","0","6">>, <<"C","r","é","d","i","t"," ","A","g","r","i","c","o","l","e"," ","P","r","o","v","e","n","c","e"," ","C","ô","t","e"," ","d","'","A","z","u","r">>>>,
    <<<<"1","9","9","0","6">>, <<"C","r","é","d","i","t"," ","A","g","r","i","c","o","l","e"," ","C","ô","t","e","s"," ","d","'","A","r","m","o","r">>>>,
    <<<<"1","6","8","0","6">>, <<"C","r","é","d","i","t"," ","A","g","r","i","c","o","l","e"," ","C","a","n","t","a","l"," ","A","u","v","e","r","g","n","e">>>>,
    <<<<"1","2","0","0","6">>, <<"C","r","é","d","i","t"," ","A","g","r","i","c","o","l","e"," ","C","o","r","s","e">>>>,
    <<<<"1","1","0","0","6">>, <<"C","r","é","d","i","t"," ","A","g","r","i","c","o","l","e"," ","C","h","a","m","p","a","g","n","e","-","B","o","u","r","g","o","g","n","e">>>>,
    <<<<"1","6","0","0","6">>, <<"C","r","é","d","i","t"," ","A","g","r","i","c","o","l","e"," ","M","o","r","b","i","h","a","n">>>>,
    <<<<"1","7","8","0","6">>, <<"C","r","é","d","i","t"," ","A","g","r","i","c","o","l","e"," ","C","e","n","t","r","e","-","E","s","t">>>>,
    <<<<"1","3","5","0","6">>, <<"C","r","é","d","i","t"," ","A","g","r","i","c","o","l","e"," ","L","a","n","g","u","e","d","o","c">>>>,
    <<<<"1","8","3","0","6">>, <<"C","r","é","d","i","t"," ","A","g","r","i","c","o","l","e"," ","N","o","r","m","a","n","d","i","e">>>>,
    <<<<"1","1","3","0","6">>, <<"C","r","é","d","i","t"," ","A","g","r","i","c","o","l","e"," ","A","l","p","e","s"," ","P","r","o","v","e","n","c","e">>>>,
    <<<<"3","0","0","0","2">>, <<"C","r","é","d","i","t"," ","A","g","r","i","c","o","l","e">>>>,
    <<<<"1","1","3","1","5">>, <<"C","r","é","d","i","t"," ","A","g","r","i","c","o","l","e">>>>,
    <<<<"1","3","3","3","5">>, <<"C","r","é","d","i","t"," ","A","g","r","i","c","o","l","e">>>>
  >>

\* {**self.local_banks, **self.codes_ca}
all_banks == local_banks \o codes_ca

clean_iban(iban) ==
  IF iban = <<>> \/ iban = None THEN <<>>
  ELSE upper(remove_char(remove_char(iban, " "), "-"))

detect_local(iban_clean) ==
  IF ~startswith(iban_clean, <<"F","R">>)
  THEN <<"B","a","n","q","u","e"," ","é","t","r","a","n","g","è","r","e">>
  ELSE IF Len(iban_clean) < 14
  THEN <<"I","B","A","N"," ","i","n","v","a","l","i","d","e">>
  ELSE LET code_banque == SubSeq(iban_clean, 5, 9)
           bank_name   == dict_get(all_banks, code_banque)
       IN  IF bank_name # None /\ bank_name # <<>>
           THEN bank_name
           ELSE <<"B","a","n","q","u","e"," ","f","r","a","n","ç","a","i","s","e"," ","(">>
                  \o code_banque \o <<")">>

\* variant of detect_bank that classifies the IBAN as given
detect_bank_no_clean(iban) ==
  IF iban = <<>> \/ iban = None THEN <<"N","/","A">>
  ELSE detect_local(iban)

detect_bank(iban) ==
  IF iban = <<>> \/ iban = None THEN <<"N","/","A">>
  ELSE LET iban_clean == clean_iban(iban)
       IN  IF iban_clean = <<>> THEN <<"N","/","A">>
           ELSE detect_local(iban_clean)

\* ---------------------------------------------------------- line processing

\* re.match(r'(.+?)\s*\((\d{5})\)', ville_code): the shortest non-empty
\* prefix (without a newline) after which optional white space, "(", five
\* digits and ")" follow. The groups, with matched = FALSE when there is no
\* match (the match object is None).
ville_match(ville_code) ==
  LET n == Len(ville_code)
      after(k) == IF \E j \in (k + 1)..n : ville_code[j] \notin Whitespace
                  THEN Min({j \in (k + 1)..n : ville_code[j] \notin Whitespace})
                  ELSE n + 1
      ok(k) == LET j == after(k)
               IN  /\ \A i \in 1..k : ville_code[i] # "\n"
                   /\ j + 6 <= n
                   /\ ville_code[j] = "("
                   /\ AllDigits(SubSeq(ville_code, j + 1, j + 5))
                   /\ ville_code[j + 6] = ")"
      ks == {k \in 1..n : ok(k)}
  IN  IF ks = {} THEN [matched |-> FALSE]
      ELSE LET k == Min(ks)
           IN  [matched |-> TRUE,
                g1 |-> SubSeq(ville_code, 1, k),
                g2 |-> SubSeq(ville_code, after(k) + 1, after(k) + 5)]

\* The bank label and the banks_detected increment that the loop body computes
\* inline for one IBAN field.
load_bank(iban) ==
  IF iban = <<>> THEN [banque |-> <<"N","/","A">>, detected |-> 0]
  ELSE
    LET iban_clean == clean_iban(iban)
        code_banque == SubSeq(iban_clean, 5, 9)
        found == dict_get(all_banks, code_banque)
        hit == /\ ~(Len(iban_clean) < 14 \/ ~startswith(iban_clean, <<"F","R">>))
               /\ found # None /\ found # <<>>
        banque_detectee ==
          IF Len(iban_clean) < 14 \/ ~startswith(iban_clean, <<"F","R">>)
          THEN IF ~startswith(iban_clean, <<"F","R">>)
               THEN <<"B","a","n","q","u","e"," ","é","t","r","a","n","g","è","r","e">>
               ELSE <<"I","B","A","N"," ","i","n","v","a","l","i","d","e">>
          ELSE IF hit THEN found
               ELSE <<"B","a","n","q","u","e"," ","f","r","a","n","ç","a","i","s","e"," ","(">>
                      \o code_banque \o <<")">>
    IN  [banque |-> <<"U+1F3E6"," ">> \o banque_detectee,
         detected |-> IF hit THEN 1 ELSE 0]

\* One iteration of the loop over lines: stored = FALSE when the line is
\* skipped (blank, fewer than 7 fields, phone not normalisable), otherwise the
\* key, the record stored under it and the banks_detected increment.
parse_line(line, now) ==
  IF strip(line) = <<>> THEN [stored |-> FALSE]
  ELSE
    LET parts == split(line, "|") IN
    IF Len(parts) < 7 THEN [stored |-> FALSE]
    ELSE
      LET telephone_raw  == strip(parts[1])
          nom_complet    == strip(parts[2])
          date_naissance == strip(parts[3])
          email          == strip(parts[4])
          adresse        == strip(parts[5])
          ville_code     == strip(parts[6])
          iban           == strip(parts[7])
          swift          == IF Len(parts) > 7 THEN strip(parts[8]) ELSE <<>>
          telephone      == normalize_phone(telephone_raw)
          nom_parts      == split1(nom_complet, " ")
          vm             == ville_match(ville_code)
          bank           == load_bank(iban)
      IN
      IF telephone = None THEN [stored |-> FALSE]
      ELSE
        [stored    |-> TRUE,
         telephone |-> telephone,
         detected  |-> bank.detected,
         record    |->
           [nom            |-> IF Len(nom_parts) = 2 THEN nom_parts[1] ELSE nom_complet,
            prenom         |-> IF Len(nom_parts) = 2 THEN nom_parts[2] ELSE <<>>,
            email          |-> email,
            entreprise     |-> <<"N","/","A">>,
            telephone      |-> telephone,
            adresse        |-> adresse,
            ville          |-> IF vm.matched THEN strip(vm.g1) ELSE ville_code,
            code_postal    |-> IF vm.matched THEN vm.g2 ELSE <<>>,
            banque         |-> bank.banque,
            swift          |-> swift,
            iban           |-> iban,
            sexe           |-> <<"N","/","A">>,
            date_naissance |-> date_naissance,
            lieu_naissance |-> <<"N","/","A">>,
            profession     |-> <<"N","/","A">>,
            statut         |-> <<"P","r","o","s","p","e","c","t">>,
            date_upload    |-> strftime(now),
            nb_appels      |-> 0,
            dernier_appel  |-> None,
            notes          |-> <<>>]]

create_unknown_client(phone_number) ==
  [nom            |-> <<"I","N","C","O","N","N","U">>,
   prenom         |-> <<"C","L","I","E","N","T">>,
   email          |-> <<"N","/","A">>,
   entreprise     |-> <<"N","/","A">>,
   adresse        |-> <<"N","/","A">>,
   ville          |-> <<"N","/","A">>,
   code_postal    |-> <<"N","/","A">>,
   telephone      |-> phone_number,
   banque         |-> <<"N","/","A">>,
   swift          |-> <<"N","/","A">>,
   iban           |-> <<"N","/","A">>,
   sexe           |-> <<"N","/","A">>,
   date_naissance |-> <<"N","/","A">>,
   lieu_naissance |-> <<"N","/","A">>,
   profession     |-> <<"N","/","A">>,
   statut         |-> <<"N","o","n"," ","r","é","f","é","r","e","n","c","é">>,
   date_upload    |-> <<"N","/","A">>,
   nb_appels      |-> 0,
   dernier_appel  |-> None,
   notes          |-> <<>>]

\* ------------------------------------------------------------------- inputs

\* well-formed, 8 fields, BNP Paribas IBAN
LineA == <<"0","6","1","2","3","4","5","6","7","8","|","D","U","P","O","N","T"," ","J","e","a","n","|","1","9","8","0","|","a","@","b",".","c","|","1"," ","r","u","e"," ","A","|","P","a","r","i","s"," ","(","7","5","0","0","1",")","|","F","R","7","6","3","0","0","0","4","0","0","0","0","3","1","2","3","4","5","6","7","8","9","0","1","4","3","|","B","N","P","A">>

\* well-formed, 7 fields, +33 phone with spaces, foreign IBAN
LineB == <<"+","3","3"," ","6"," ","9","8"," ","7","6"," ","5","4"," ","3","2","|","M","A","R","T","I","N","|","1","9","9","0","|","m","@","n",".","o","|","2"," ","r","u","e"," ","B","|","L","y","o","n","|","D","E","8","9","3","7","0","4","0","0","4","4","0","5","3","2","0","1","3","0","0","0">>

\* well-formed, the number of LineA written with the 0033 prefix, empty IBAN
LineA2 == <<"0","0","3","3","6","1","2","3","4","5","6","7","8","|","D","U","R","A","N","D"," ","E","v","e"," ","M","a","r","i","e","|","1","9","7","0","|","e","@","f",".","g","|","3"," ","r","u","e"," ","C","|","N","i","c","e","(","0","6","0","0","0",")","|">>

\* 6 fields
LineShort == <<"0","6","1","1","1","1","1","1","1","1","|","X","|","Y","|","Z","|","W","|","V">>

\* 8 fields, phone that fails normalisation
LineBadPhone == <<"1","2","3","|","N"," ","P","|","d","|","e","|","a","|","v","|","F","R","7","6","|","s">>

LineBlank == <<" "," ">>

NL == <<"\n">>

TextEmpty == <<>>

TextA == LineA

TextAB == LineA \o NL \o LineB \o NL

TextDup == LineA \o NL \o LineA2

TextShort == LineShort

TextMix == LineShort \o NL \o LineBlank \o NL \o LineB \o NL \o LineBadPhone

\* the number of LineA twice, another number in between
TextDup3 == LineA2 \o NL \o LineB \o NL \o LineA

Texts == {TextEmpty, TextA, TextAB, TextDup, TextDup3, TextShort, TextMix}

PhoneA == <<"0","6","1","2","3","4","5","6","7","8">>

PhoneB == <<"0","6"," ","9","8"," ","7","6"," ","5","4"," ","3","2">>

PhoneMiss == <<"0","0","0","0","0","0","0","0","0","0">>

PhoneBad == <<"1","2","3">>

Phones == {PhoneA, PhoneB, PhoneMiss, PhoneBad, <<>>}

\* ../a.txt (kept as a.txt), b.csv and .txt (kept as txt), both refused
Filenames ==
  { <<".",".","/","a",".","t","x","t">>, <<"b",".","c","s","v">>, <<".","t","x","t">> }

Threads == {"t1", "t2"}

\* the thread that serves the requests when they arrive one after the other
SeqThread == "t1"

\* last value of the wall clock explored
MaxClock == 1

\* lookups are explored while the record they hit has fewer calls than this
MaxCalls == 2

\* ------------------------------------------------------------ dict helpers

EmptyDict == <<>>

\* d[k] = v on a dict
dict_set(d, k, v) == [x \in (DOMAIN d) \cup {k} |-> IF x = k THEN v ELSE d[x]]

\* len(d)
dict_len(d) == Cardinality(DOMAIN d)

NoCall == [op |-> "none", arg |-> <<>>, value |-> 0, raised |-> ""]

\* ------------------------------------------------------- handlers, as a whole

\* variant of load_line that counts a line before it is checked
load_line_counts_skipped(acc, line, now) ==
  LET r == parse_line(line, now)
  IN  IF r.stored
      THEN [db             |-> dict_set(acc.db, r.telephone, r.record),
            loaded_count   |-> acc.loaded_count + 1,
            banks_detected |-> acc.banks_detected + r.detected]
      ELSE [acc EXCEPT !.loaded_count = @ + 1]

\* variant of load_line that stores the record under the phone field as read
load_line_raw_key(acc, line, now) ==
  LET r == parse_line(line, now)
  IN  IF r.stored
      THEN [db             |-> dict_set(acc.db, strip(split(line, "|")[1]), r.record),
            loaded_count   |-> acc.loaded_count + 1,
            banks_detected |-> acc.banks_detected + r.detected]
      ELSE acc

\* variant of load_line that keeps the record a number already has
load_line_first_wins(acc, line, now) ==
  LET r == parse_line(line, now)
  IN  IF r.stored
      THEN [db             |-> IF r.telephone \in DOMAIN acc.db THEN acc.db
                               ELSE dict_set(acc.db, r.telephone, r.record),
            loaded_count   |-> acc.loaded_count + 1,
            banks_detected |-> acc.banks_detected + r.detected]
      ELSE acc

\* the body of the loop over lines for one line: acc holds clients_database,
\* loaded_count and banks_detected
load_line(acc, line, now) ==
  LET r == parse_line(line, now)
  IN  IF r.stored
      THEN [db             |-> dict_set(acc.db, r.telephone, r.record),
            loaded_count   |-> acc.loaded_count + 1,
            banks_detected |-> acc.banks_detected + r.detected]
      ELSE acc

\* the loop over lines from line i on; nows[i] is what datetime.now() gives
\* during the iteration of line i (each iteration that stores reads it anew)
RECURSIVE load_lines(_, _, _, _)
load_lines(acc, lines, i, nows) ==
  IF i > Len(lines) THEN acc
  ELSE load_lines(load_line(acc, lines[i], nows[i]), lines, i + 1, nows)

\* variant of load_clients_from_pipe_file without clients_database = {}
load_without_reset(file_content, nows) ==
  load_lines([db |-> clients_database, loaded_count |-> 0, banks_detected |-> 0],
             split(strip(file_content), "\n"), 1, nows)

\* load_clients_from_pipe_file run without interruption, the wall clock
\* standing at nows[i] during the iteration of line i: the directory it
\* leaves, the count it returns and the banks_detected it stores
load_clients_from_pipe_file(file_content, nows) ==
  load_lines([db |-> EmptyDict, loaded_count |-> 0, banks_detected |-> 0],
             split(strip(file_content), "\n"), 1, nows)

\* the readings of a wall clock that stands between lo and hi and never goes
\* back, n readings in a row
ClockReadings(lo, hi, n) ==
  {s \in [1..n -> lo..hi] : \A i \in 1..(n - 1) : s[i] <= s[i + 1]}

\* the readings of one load of file_content while the clock stands between
\* lo and hi: one per line of the loop, then the one stored as last_upload
LoadReadings(file_content, lo, hi) ==
  ClockReadings(lo, hi, Len(split(strip(file_content), "\n")) + 1)

\* the readings of a load of file_content during which the clock stands at c
Still(file_content, c) ==
  [i \in 1..(Len(split(strip(file_content), "\n")) + 1) |-> c]

\* variants of get_client_info with one plausible slip each; the formulas of
\* the claims tell each of them from the code

\* the copy is taken after the update
get_client_info_copy_after(db, phone_number, now) ==
  LET normalized == normalize_phone(phone_number) IN
  IF phone_number # <<>> /\ normalized # None /\ normalized \in DOMAIN db
  THEN LET updated == [db EXCEPT ![normalized].nb_appels = @ + 1,
                                 ![normalized].dernier_appel = strftime(now)]
       IN  [db |-> updated, client |-> updated[normalized]]
  ELSE [db |-> db, client |-> create_unknown_client(phone_number)]

\* the call-count is left as it is
get_client_info_no_increment(db, phone_number, now) ==
  LET normalized == normalize_phone(phone_number) IN
  IF phone_number # <<>> /\ normalized # None /\ normalized \in DOMAIN db
  THEN [db     |-> [db EXCEPT ![normalized].dernier_appel = strftime(now)],
        client |-> db[normalized]]
  ELSE [db |-> db, client |-> create_unknown_client(phone_number)]

\* the Unknown record carries the normalised phone
get_client_info_unknown_normalised(db, phone_number, now) ==
  LET normalized == normalize_phone(phone_number) IN
  IF phone_number # <<>> /\ normalized # None /\ normalized \in DOMAIN db
  THEN [db     |-> [db EXCEPT ![normalized].nb_appels = @ + 1,
                              ![normalized].dernier_appel = strftime(now)],
        client |-> db[normalized]]
  ELSE [db |-> db, client |-> create_unknown_client(normalized)]

\* the Unknown record is stored under the phone that missed
get_client_info_stores_unknown(db, phone_number, now) ==
  LET normalized == normalize_phone(phone_number) IN
  IF phone_number # <<>> /\ normalized # None /\ normalized \in DOMAIN db
  THEN [db     |-> [db EXCEPT ![normalized].nb_appels = @ + 1,
                              ![normalized].dernier_appel = strftime(now)],
        client |-> db[normalized]]
  ELSE [db     |-> dict_set(db, phone_number, create_unknown_client(phone_number)),
        client |-> create_unknown_client(phone_number)]

\* the directory is searched for the phone as given
get_client_info_raw_key(db, phone_number, now) ==
  IF phone_number # <<>> /\ phone_number \in DOMAIN db
  THEN LET bumped == [db EXCEPT ![phone_number].nb_appels = @ + 1]
       IN  [db     |-> [bumped EXCEPT ![phone_number].dernier_appel = strftime(now)],
            client |-> db[phone_number]]
  ELSE [db |-> db, client |-> create_unknown_client(phone_number)]

\* a miss of a normalisable phone stores the Unknown record it returns
get_client_info_caches_unknown(db, phone_number, now) ==
  LET normalized == normalize_phone(phone_number) IN
  IF phone_number # <<>> /\ normalized # None /\ normalized \in DOMAIN db
  THEN [db     |-> [db EXCEPT ![normalized].nb_appels = @ + 1,
                              ![normalized].dernier_appel = strftime(now)],
        client |-> db[normalized]]
  ELSE IF phone_number # <<>> /\ normalized # None
  THEN [db     |-> dict_set(db, normalized, create_unknown_client(normalized)),
        client |-> create_unknown_client(phone_number)]
  ELSE [db |-> db, client |-> create_unknown_client(phone_number)]

\* the call-count is set to 1 ("= 1" for "+= 1")
get_client_info_sets_one(db, phone_number, now) ==
  LET normalized == normalize_phone(phone_number) IN
  IF phone_number # <<>> /\ normalized # None /\ normalized \in DOMAIN db
  THEN [db     |-> [db EXCEPT ![normalized].nb_appels = 1,
                              ![normalized].dernier_appel = strftime(now)],
        client |-> db[normalized]]
  ELSE [db |-> db, client |-> create_unknown_client(phone_number)]

\* get_client_info run without interruption at time now: the directory it
\* leaves and the record it returns
get_client_info(db, phone_number, now) ==
  IF phone_number = <<>>
  THEN [db |-> db, client |-> create_unknown_client(phone_number)]
  ELSE
    LET normalized == normalize_phone(phone_number) IN
    IF normalized # None /\ normalized \in DOMAIN db
    THEN LET client == db[normalized]
             bumped == [db EXCEPT ![normalized].nb_appels = @ + 1]
         IN  [db     |-> [bumped EXCEPT ![normalized].dernier_appel = strftime(now)],
              client |-> client]
    ELSE [db |-> db, client |-> create_unknown_client(phone_number)]

\* POST /upload with an upload named filename holding content, the wall
\* clock giving the readings nows while the request is served
UploadFile(t, filename, content, nows) ==
  /\ \A u \in Threads : pc[u] = "idle"
  /\ filename # <<>>
  /\ endswith(secure_filename(filename), <<".","t","x","t">>)
  /\ nows[1] >= clock
  /\ LET r == load_clients_from_pipe_file(content, nows)
         last == nows[Len(nows)]
     IN  /\ clients_database' = r.db
         /\ upload_stats' = [total_clients  |-> dict_len(r.db),
                             last_upload    |-> strftime(last),
                             filename       |-> secure_filename(filename),
                             banks_detected |-> r.banks_detected]
         /\ ret' = [ret EXCEPT ![t] = [op |-> "upload_file", arg |-> content,
                                       value |-> r.loaded_count, raised |-> ""]]
         /\ clock' = last
  /\ UNCHANGED <<pc, frame>>

\* a call of get_client_info (webhook, /search, /numero)
GetClientInfo(t, phone_number) ==
  /\ \A u \in Threads : pc[u] = "idle"
  /\ LET r == get_client_info(clients_database, phone_number, clock)
         normalized == normalize_phone(phone_number)
     IN  /\ (normalized \in DOMAIN clients_database) =>
              clients_database[normalized].nb_appels < MaxCalls
         /\ clients_database' = r.db
         /\ ret' = [ret EXCEPT ![t] = [op |-> "get_client_info", arg |-> phone_number,
                                       value |-> r.client, raised |-> ""]]
  /\ UNCHANGED <<upload_stats, clock, pc, frame>>

\* variant of clear_database that counts after emptying the directory
ClearDatabase_count_after(t) ==
  /\ \A u \in Threads : pc[u] = "idle"
  /\ clients_database' = EmptyDict
  /\ ret' = [ret EXCEPT ![t] = [op |-> "clear_database", arg |-> <<>>,
                                value |-> dict_len(clients_database'), raised |-> ""]]
  /\ upload_stats' = [total_clients |-> 0, last_upload |-> None,
                      filename |-> None, banks_detected |-> 0]
  /\ UNCHANGED <<clock, pc, frame>>

\* GET /clear
ClearDatabase(t) ==
  /\ \A u \in Threads : pc[u] = "idle"
  /\ LET count == dict_len(clients_database)
     IN  ret' = [ret EXCEPT ![t] = [op |-> "clear_database", arg |-> <<>>,
                                    value |-> count, raised |-> ""]]
  /\ clients_database' = EmptyDict
  /\ upload_stats' = [total_clients |-> 0, last_upload |-> None,
                      filename |-> None, banks_detected |-> 0]
  /\ UNCHANGED <<clock, pc, frame>>

\* the wall clock advances by one second
Tick ==
  /\ clock < MaxClock
  /\ clock' = clock + 1
  /\ UNCHANGED <<clients_database, upload_stats, pc, frame, ret>>

Init ==
  /\ clients_database = EmptyDict
  /\ upload_stats = [total_clients |-> 0, last_upload |-> None,
                     filename |-> None, banks_detected |-> 0]
  /\ clock = 0
  /\ pc = [t \in Threads |-> "idle"]
  /\ frame = [t \in Threads |-> [op |-> "none"]]
  /\ ret = [t \in Threads |-> NoCall]

Upload ==
  \E f \in Filenames, c \in Texts :
    \E nows \in LoadReadings(c, clock, MaxClock) : UploadFile(SeqThread, f, c, nows)

Lookup == \E p \in Phones : GetClientInfo(SeqThread, p)

Clear == ClearDatabase(SeqThread)

Next == Upload \/ Lookup \/ Clear \/ Tick

\* requests served one after the other
Spec == Init /\ [][Next]_vars

\* ------------------------------------------- handlers, statement by statement
\* Flask serves each request on its own thread; the handlers take no lock, so
\* the statements below interleave. Every statement reads the global
\* clients_database (upload_stats) anew. The only object a handler keeps hold
\* of across a point where another thread can run is the record that
\* clients_database[normalized]["nb_appels"] += 1 reads and then writes:
\* frame[t].held tells whether that record is still the one stored under its
\* key (it is not once the directory is rebound or the key is assigned anew,
\* and the write then lands in a record no longer reachable).
\* A thread serves one request: it is "idle" before the request arrives and
\* "done" once the handler has returned or raised.

LookupFrame(phone_number, normalized) ==
  [op |-> "get_client_info", phone_number |-> phone_number, normalized |-> normalized,
   client |-> <<>>, nb |-> 0, held |-> FALSE]

\* the records stored under keys are replaced by new objects
release(f, keys) ==
  [u \in Threads |->
     IF f[u].op = "get_client_info" /\ f[u].held /\ f[u].normalized \in keys
     THEN [f[u] EXCEPT !.held = FALSE]
     ELSE f[u]]

Returned(t, op, arg, value) ==
  [ret EXCEPT ![t] = [op |-> op, arg |-> arg, value |-> value, raised |-> ""]]

Raised(t, op, arg, error) ==
  [ret EXCEPT ![t] = [op |-> op, arg |-> arg, value |-> <<>>, raised |-> error]]

\* upload_file up to and including clients_database = {} of load
UploadBegin(t, filename, content) ==
  /\ pc[t] = "idle"
  /\ filename # <<>>
  /\ endswith(secure_filename(filename), <<".","t","x","t">>)
  /\ clients_database' = EmptyDict
  /\ frame' = [release(frame, DOMAIN clients_database) EXCEPT ![t] =
                 [op |-> "upload_file", filename |-> secure_filename(filename),
                  content |-> content,
                  lines |-> split(strip(content), "\n"), i |-> 1,
                  loaded_count |-> 0, banks_detected |-> 0, total |-> 0,
                  before |-> DOMAIN clients_database]]
  /\ pc' = [pc EXCEPT ![t] = "load_loop"]
  /\ UNCHANGED <<upload_stats, clock, ret>>

\* one iteration of for line in lines
LoadLine(t) ==
  /\ pc[t] = "load_loop"
  /\ frame[t].i <= Len(frame[t].lines)
  /\ LET f   == frame[t]
         r   == parse_line(f.lines[f.i], clock)
         acc == load_line([db |-> clients_database, loaded_count |-> f.loaded_count,
                           banks_detected |-> f.banks_detected], f.lines[f.i], clock)
     IN  /\ clients_database' = acc.db
         /\ frame' = [release(frame, IF r.stored THEN {r.telephone} ELSE {}) EXCEPT ![t] =
                        [f EXCEPT !.i = @ + 1, !.loaded_count = acc.loaded_count,
                                  !.banks_detected = acc.banks_detected]]
  /\ UNCHANGED <<upload_stats, clock, pc, ret>>

\* the loop is over; len(clients_database) is evaluated
LoadCount(t) ==
  /\ pc[t] = "load_loop"
  /\ frame[t].i > Len(frame[t].lines)
  /\ frame' = [frame EXCEPT ![t].total = dict_len(clients_database)]
  /\ pc' = [pc EXCEPT ![t] = "load_total"]
  /\ UNCHANGED <<clients_database, upload_stats, clock, ret>>

\* upload_stats["total_clients"] = ...
LoadTotal(t) ==
  /\ pc[t] = "load_total"
  /\ upload_stats' = [upload_stats EXCEPT !.total_clients = frame[t].total]
  /\ pc' = [pc EXCEPT ![t] = "load_last"]
  /\ UNCHANGED <<clients_database, clock, frame, ret>>

\* upload_stats["last_upload"] = ...
LoadLast(t) ==
  /\ pc[t] = "load_last"
  /\ upload_stats' = [upload_stats EXCEPT !.last_upload = strftime(clock)]
  /\ pc' = [pc EXCEPT ![t] = "load_banks"]
  /\ UNCHANGED <<clients_database, clock, frame, ret>>

\* upload_stats["banks_detected"] = banks_detected; return loaded_count
LoadBanks(t) ==
  /\ pc[t] = "load_banks"
  /\ upload_stats' = [upload_stats EXCEPT !.banks_detected = frame[t].banks_detected]
  /\ pc' = [pc EXCEPT ![t] = "upload_name"]
  /\ UNCHANGED <<clients_database, clock, frame, ret>>

\* upload_stats["filename"] = filename; the response carries nb
UploadName(t) ==
  /\ pc[t] = "upload_name"
  /\ upload_stats' = [upload_stats EXCEPT !.filename = frame[t].filename]
  /\ ret' = Returned(t, "upload_file", frame[t].content, frame[t].loaded_count)
  /\ pc' = [pc EXCEPT ![t] = "done"]
  /\ frame' = [frame EXCEPT ![t] = [op |-> "none"]]
  /\ UNCHANGED <<clients_database, clock>>

\* get_client_info up to the test normalized and normalized in clients_database
GetTest(t, phone_number) ==
  /\ pc[t] = "idle"
  /\ LET normalized == normalize_phone(phone_number)
     IN  IF phone_number # <<>> /\ normalized # None /\ normalized \in DOMAIN clients_database
         THEN /\ clients_database[normalized].nb_appels < MaxCalls
              /\ pc' = [pc EXCEPT ![t] = "get_copy"]
              /\ frame' = [frame EXCEPT ![t] = LookupFrame(phone_number, normalized)]
              /\ UNCHANGED ret
         ELSE /\ ret' = Returned(t, "get_client_info", phone_number,
                                 create_unknown_client(phone_number))
              /\ pc' = [pc EXCEPT ![t] = "done"]
              /\ UNCHANGED frame
  /\ UNCHANGED <<clients_database, upload_stats, clock>>

\* client = clients_database[normalized].copy()
GetCopy(t) ==
  /\ pc[t] = "get_copy"
  /\ LET f == frame[t]
     IN  IF f.normalized \in DOMAIN clients_database
         THEN /\ frame' = [frame EXCEPT ![t].client = clients_database[f.normalized]]
              /\ pc' = [pc EXCEPT ![t] = "get_read"]
              /\ UNCHANGED ret
         ELSE /\ ret' = Raised(t, "get_client_info", f.phone_number, "KeyError")
              /\ pc' = [pc EXCEPT ![t] = "done"]
              /\ frame' = [frame EXCEPT ![t] = [op |-> "none"]]
  /\ UNCHANGED <<clients_database, upload_stats, clock>>

\* clients_database[normalized]["nb_appels"] += 1, the read
GetRead(t) ==
  /\ pc[t] = "get_read"
  /\ LET f == frame[t]
     IN  IF f.normalized \in DOMAIN clients_database
         THEN /\ frame' = [frame EXCEPT ![t].nb = clients_database[f.normalized].nb_appels,
                                        ![t].held = TRUE]
              /\ pc' = [pc EXCEPT ![t] = "get_write"]
              /\ UNCHANGED ret
         ELSE /\ ret' = Raised(t, "get_client_info", f.phone_number, "KeyError")
              /\ pc' = [pc EXCEPT ![t] = "done"]
              /\ frame' = [frame EXCEPT ![t] = [op |-> "none"]]
  /\ UNCHANGED <<clients_database, upload_stats, clock>>

\* clients_database[normalized]["nb_appels"] += 1, the write
GetWrite(t) ==
  /\ pc[t] = "get_write"
  /\ LET f == frame[t]
     IN  clients_database' =
           IF f.held
           THEN [clients_database EXCEPT ![f.normalized].nb_appels = f.nb + 1]
           ELSE clients_database
  /\ frame' = [frame EXCEPT ![t].held = FALSE]
  /\ pc' = [pc EXCEPT ![t] = "get_stamp"]
  /\ UNCHANGED <<upload_stats, clock, ret>>

\* clients_database[normalized]["dernier_appel"] = ...; return client
GetStamp(t) ==
  /\ pc[t] = "get_stamp"
  /\ LET f == frame[t]
     IN  IF f.normalized \in DOMAIN clients_database
         THEN /\ clients_database' =
                   [clients_database EXCEPT ![f.normalized].dernier_appel = strftime(clock)]
              /\ ret' = Returned(t, "get_client_info", f.phone_number, f.client)
         ELSE /\ ret' = Raised(t, "get_client_info", f.phone_number, "KeyError")
              /\ UNCHANGED clients_database
  /\ pc' = [pc EXCEPT ![t] = "done"]
  /\ frame' = [frame EXCEPT ![t] = [op |-> "none"]]
  /\ UNCHANGED <<upload_stats, clock>>

\* count = len(clients_database)
ClearCount(t) ==
  /\ pc[t] = "idle"
  /\ frame' = [frame EXCEPT ![t] = [op |-> "clear_database",
                                    count |-> dict_len(clients_database)]]
  /\ pc' = [pc EXCEPT ![t] = "clear_db"]
  /\ UNCHANGED <<clients_database, upload_stats, clock, ret>>

\* clients_database = {}
ClearDb(t) ==
  /\ pc[t] = "clear_db"
  /\ clients_database' = EmptyDict
  /\ frame' = release(frame, DOMAIN clients_database)
  /\ pc' = [pc EXCEPT ![t] = "clear_stats"]
  /\ UNCHANGED <<upload_stats, clock, ret>>

\* upload_stats = {...}; the response carries count
ClearStats(t) ==
  /\ pc[t] = "clear_stats"
  /\ upload_stats' = [total_clients |-> 0, last_upload |-> None,
                      filename |-> None, banks_detected |-> 0]
  /\ ret' = Returned(t, "clear_database", <<>>, frame[t].count)
  /\ pc' = [pc EXCEPT ![t] = "done"]
  /\ frame' = [frame EXCEPT ![t] = [op |-> "none"]]
  /\ UNCHANGED <<clients_database, clock>>

LoadSteps(t) ==
  LoadLine(t) \/ LoadCount(t) \/ LoadTotal(t) \/ LoadLast(t) \/ LoadBanks(t) \/ UploadName(t)

GetSteps(t) == GetCopy(t) \/ GetRead(t) \/ GetWrite(t) \/ GetStamp(t)

ClearSteps(t) == ClearDb(t) \/ ClearStats(t)

\* the server hands the next request to a new thread
Recycle(t) ==
  /\ pc[t] = "done"
  /\ pc' = [pc EXCEPT ![t] = "idle"]
  /\ UNCHANGED <<clients_database, upload_stats, clock, frame, ret>>

\* Uploads arrive one after the other, lookups arrive one after the other,
\* and an upload and a lookup run together.
Uploader == "t1"

Looker == "t2"

LoadLookupNext ==
  \/ \E f \in Filenames, c \in Texts : UploadBegin(Uploader, f, c)
  \/ LoadSteps(Uploader)
  \/ \E p \in Phones : GetTest(Looker, p)
  \/ GetSteps(Looker)
  \/ \E t \in Threads : Recycle(t)

SpecLoadLookup == Init /\ [][LoadLookupNext]_vars

\* Uploads run one after the other, then each thread serves one lookup, the
\* lookups running together.
LookupsNext ==
  \/ \E f \in Filenames, c \in Texts : UploadFile(SeqThread, f, c, Still(c, clock))
  \/ \E t \in Threads, p \in Phones : GetTest(t, p)
  \/ \E t \in Threads : GetSteps(t)

SpecLookups == Init /\ [][LookupsNext]_vars

\* Requests are served one after the other (two texts with different numbers,
\* the lookups of these numbers, clear), then each thread serves one request
\* of any kind, the two running together.
ConcTexts == {TextA, TextMix}

ConcPhones == {PhoneA, PhoneB}

ConcFilename == <<"a",".","t","x","t">>

ConcNext ==
  \/ \E c \in ConcTexts : UploadFile(SeqThread, ConcFilename, c, Still(c, clock))
  \/ \E p \in ConcPhones : GetClientInfo(SeqThread, p)
  \/ ClearDatabase(SeqThread)
  \/ \E t \in Threads, c \in ConcTexts : UploadBegin(t, ConcFilename, c)
  \/ \E t \in Threads : LoadSteps(t)
  \/ \E t \in Threads, p \in ConcPhones : GetTest(t, p)
  \/ \E t \in Threads : GetSteps(t)
  \/ \E t \in Threads : ClearCount(t)
  \/ \E t \in Threads : ClearSteps(t)

SpecConcurrent == Init /\ [][ConcNext]_vars

\* ---------------------------------------------------- vocabulary of the claims

Prospect == <<"P","r","o","s","p","e","c","t">>

NonReference == <<"N","o","n"," ","r","é","f","é","r","e","n","c","é">>

NA == <<"N","/","A">>

\* the last completed call when requests are served one after the other
Last == ret[SeqThread]

\* a step of Spec that completes a call of handler op
CallStep(op) ==
  /\ ret'[SeqThread].op = op
  /\ \/ clock' = clock
     \/ <<clients_database, upload_stats, ret>>' # <<clients_database, upload_stats, ret>>

\* the key a phone number looks up
KeyOf(phone_number) == normalize_phone(phone_number)

\* the last call was a lookup and its phone is a key of the directory
LastHit ==
  /\ Last.op = "get_client_info"
  /\ KeyOf(Last.arg) \in DOMAIN clients_database

\* the last call was a lookup and its phone is no key of the directory
LastMiss ==
  /\ Last.op = "get_client_info"
  /\ KeyOf(Last.arg) \notin DOMAIN clients_database

\* a step that completes a lookup whose phone is a key of the directory
HitStep ==
  /\ CallStep("get_client_info")
  /\ KeyOf(ret'[SeqThread].arg) \in DOMAIN clients_database

\* the lines of a text as load iterates over them
LinesOf(text) == split(strip(text), "\n")

\* what the specification says of one line: it is dropped when blank, when it
\* has fewer than 7 fields, or when its phone field has no canonical form
IsDropped(line) ==
  \/ strip(line) = <<>>
  \/ Len(split(line, "|")) < 7
  \/ normalize_phone(strip(split(line, "|")[1])) = None

KeptLines(text) == SelectSeq(LinesOf(text), LAMBDA l : ~IsDropped(l))

RECURSIVE JoinLines(_)
JoinLines(lines) ==
  IF lines = <<>> THEN <<>>
  ELSE IF Len(lines) = 1 THEN lines[1]
  ELSE lines[1] \o <<"\n">> \o JoinLines(Tail(lines))

\* the directory the specification asks of a load of text at time c: one
\* record per canonical phone of a kept line, built from the last such line
ParsedDirectory(text, c) ==
  LET kept == KeptLines(text)
      keyAt(i) == normalize_phone(strip(split(kept[i], "|")[1]))
      keys == {keyAt(i) : i \in 1..Len(kept)}
      lastOf(k) == CHOOSE i \in 1..Len(kept) :
                     keyAt(i) = k /\ \A j \in 1..Len(kept) : keyAt(j) = k => j <= i
  IN  [k \in keys |-> parse_line(kept[lastOf(k)], c).record]

\* -------------------------------------------------------------------- claims

\* C1: a lookup that tests the directory while a load is running finds its
\* key present exactly when the directory before the load held it, or exactly
\* when the directory the load produces holds it: it never sees the emptied
\* or half-filled directory.
LoadRunning(t) == pc[t] \in {"load_loop", "load_total", "load_last", "load_banks"}

C1_LookupSeesBeforeOrAfter ==
  [][\A p \in Phones :
       (GetTest(Looker, p) /\ LoadRunning(Uploader)) =>
         LET k      == KeyOf(p)
             hit    == pc'[Looker] = "get_copy"
             before == frame[Uploader].before
             after  == DOMAIN ParsedDirectory(frame[Uploader].content, clock)
         IN  (hit <=> k \in before) \/ (hit <=> k \in after)
    ]_vars

\* C2: once k lookups of one stored phone number, run together after a load,
\* have all returned, the stored nb_appels of that number is k.
C2_NoLostIncrement ==
  (\A t \in Threads : pc[t] = "done" /\ ret[t].op = "get_client_info" /\ ret[t].raised = "")
    => \A k \in DOMAIN clients_database :
         clients_database[k].nb_appels =
           Cardinality({t \in Threads : KeyOf(ret[t].arg) = k})

\* C3 as stated: on a directory hit the record returned by get_client_info
\* carries the post-increment nb_appels and the new dernier_appel of the
\* stored record.
C3_ReturnedIsPostIncrement ==
  LastHit =>
    /\ Last.value.nb_appels = clients_database[KeyOf(Last.arg)].nb_appels
    /\ Last.value.dernier_appel = clients_database[KeyOf(Last.arg)].dernier_appel

\* C3 amended: on a directory hit get_client_info returns the record as it was
\* stored before this lookup's update (nb_appels one less than the stored
\* value it leaves, dernier_appel that of the previous lookup or None), while
\* the stored record gets nb_appels + 1 and dernier_appel = now.
C3_ReturnedIsPreIncrement ==
  [][HitStep =>
       LET k == KeyOf(ret'[SeqThread].arg)
       IN  /\ ret'[SeqThread].value = clients_database[k]
           /\ clients_database'[k].nb_appels = ret'[SeqThread].value.nb_appels + 1
           /\ clients_database'[k].dernier_appel = strftime(clock)]_vars

C3_Witness ==
  /\ LastHit
  /\ Last.value.nb_appels = 1
  /\ clients_database[KeyOf(Last.arg)].nb_appels = 2
  /\ Last.value.dernier_appel # None
  /\ Last.value.dernier_appel # clients_database[KeyOf(Last.arg)].dernier_appel

\* C4: after a load every stored call-count is 0; each lookup that hits key k
\* returns status Prospect and the count k had before the lookup, and leaves
\* it one higher; a lookup leaves every other key's count as it was, so the
\* successive lookups of k return 0, 1, 2, ...
C4_CountsFromZeroByOne ==
  [][/\ CallStep("upload_file") =>
          \A k \in DOMAIN clients_database' : clients_database'[k].nb_appels = 0
     /\ HitStep =>
          LET k == KeyOf(ret'[SeqThread].arg)
          IN  /\ ret'[SeqThread].value.statut = Prospect
              /\ ret'[SeqThread].value.nb_appels = clients_database[k].nb_appels
              /\ clients_database'[k].nb_appels = clients_database[k].nb_appels + 1
     /\ CallStep("get_client_info") =>
          /\ DOMAIN clients_database' = DOMAIN clients_database
          /\ \A k \in DOMAIN clients_database :
               k # KeyOf(ret'[SeqThread].arg) =>
                 clients_database'[k].nb_appels = clients_database[k].nb_appels
    ]_vars

C4_Witness ==
  /\ LastHit
  /\ Last.value.statut = Prospect
  /\ Last.value.nb_appels = 1
  /\ \E k \in DOMAIN clients_database :
       k # KeyOf(Last.arg) /\ clients_database[k].nb_appels = 1

\* C5: the integer load returns equals the number of records in the directory
\* when it returns.
C5_ReturnsCountStored ==
  Last.op = "upload_file" => Last.value = Cardinality(DOMAIN clients_database)

\* C6: whatever came before, a load of text T leaves exactly the records
\* parsed from T (one per canonical phone), each with call-count 0 and no
\* last-call; nothing of an earlier load survives, so loading T again gives
\* the same directory up to the upload timestamp.
Unstamped(db) == [k \in DOMAIN db |-> [db[k] EXCEPT !.date_upload = <<>>]]

C6_LoadReplacesDirectory ==
  Last.op = "upload_file" =>
    /\ Unstamped(clients_database) = Unstamped(ParsedDirectory(Last.arg, 0))
    /\ \A k \in DOMAIN clients_database :
         \E c \in 0..clock : clients_database[k].date_upload = strftime(c)
    /\ \A k \in DOMAIN clients_database :
         /\ clients_database[k].nb_appels = 0
         /\ clients_database[k].dernier_appel = None

C6_Witness ==
  /\ Last.op = "upload_file"
  /\ Last.arg = TextMix
  /\ DOMAIN clients_database = {<<"0","6","9","8","7","6","5","4","3","2">>}
  /\ ret[SeqThread].value = 1
  /\ upload_stats.total_clients = 1
  /\ clock > 0

\* C7: a blank line, a line with fewer than 7 fields and a line whose phone
\* has no canonical form produce no record and leave the other lines' records
\* as they are: load(T) stores what load of T without those lines stores and
\* returns the number of the other lines; a text of dropped lines only
\* returns 0 and leaves the directory empty.
C7_DroppedLinesLeaveNoTrace ==
  Last.op = "upload_file" =>
    LET kept == KeptLines(Last.arg)
    IN  /\ Last.raised = ""
        /\ Last.value = Len(kept)
        /\ Unstamped(clients_database) =
             Unstamped(load_clients_from_pipe_file(JoinLines(kept),
                                                   Still(JoinLines(kept), 0)).db)
        /\ DOMAIN clients_database =
             {normalize_phone(strip(split(kept[i], "|")[1])) : i \in 1..Len(kept)}
        /\ (kept = <<>>) => (Last.value = 0 /\ clients_database = EmptyDict)

C7_Witness ==
  /\ Last.op = "upload_file"
  /\ Last.arg = TextShort
  /\ Last.value = 0
  /\ clients_database = EmptyDict
  /\ upload_stats.filename # None

\* C8: a lookup whose phone has no canonical form or whose canonical form is
\* no key of the directory raises nothing and returns the Unknown record:
\* status "Non référencé", placeholder fields, call-count 0, no last-call,
\* and the telephone exactly as given.
C8_MissReturnsUnknown ==
  LastMiss =>
    /\ Last.raised = ""
    /\ Last.value =
         [nom |-> <<"I","N","C","O","N","N","U">>, prenom |-> <<"C","L","I","E","N","T">>,
          email |-> NA, entreprise |-> NA, adresse |-> NA, ville |-> NA,
          code_postal |-> NA, telephone |-> Last.arg, banque |-> NA, swift |-> NA,
          iban |-> NA, sexe |-> NA, date_naissance |-> NA, lieu_naissance |-> NA,
          profession |-> NA, statut |-> NonReference, date_upload |-> NA,
          nb_appels |-> 0, dernier_appel |-> None, notes |-> <<>>]

C8_Witness ==
  /\ LastMiss
  /\ Last.arg = PhoneB
  /\ Last.value.telephone = PhoneB
  /\ Last.value.statut = NonReference
  /\ clients_database # EmptyDict

\* C9: a lookup leaves the key set and upload_stats as they were; on a miss
\* every record is as it was; on a hit every other record and every field of
\* the hit record other than nb_appels and dernier_appel is as it was.
C9_LookupFrame ==
  [][CallStep("get_client_info") =>
       /\ DOMAIN clients_database' = DOMAIN clients_database
       /\ upload_stats' = upload_stats
       /\ \A k \in DOMAIN clients_database :
            IF k = KeyOf(ret'[SeqThread].arg)
            THEN [clients_database'[k] EXCEPT !.nb_appels = 0, !.dernier_appel = None]
                   = [clients_database[k] EXCEPT !.nb_appels = 0, !.dernier_appel = None]
            ELSE clients_database'[k] = clients_database[k]
    ]_vars

C9_Witness ==
  /\ LastHit
  /\ Cardinality(DOMAIN clients_database) = 2
  /\ \E k \in DOMAIN clients_database :
       /\ k # KeyOf(Last.arg)
       /\ clients_database[k].nb_appels = 0
  /\ clients_database[KeyOf(Last.arg)].nb_appels = 1

\* C10: clear leaves the directory empty and upload_stats reset (0, None,
\* None, 0), and reports the number of records the directory held right
\* before it; the lookup that follows a clear returns the Unknown record.
C10_ClearEmptiesAndReports ==
  [][/\ CallStep("clear_database") =>
          /\ clients_database' = EmptyDict
          /\ upload_stats' = [total_clients |-> 0, last_upload |-> None,
                              filename |-> None, banks_detected |-> 0]
          /\ ret'[SeqThread].value = Cardinality(DOMAIN clients_database)
     /\ (Last.op = "clear_database" /\ CallStep("get_client_info")) =>
          /\ ret'[SeqThread].value.statut = NonReference
          /\ clients_database' = EmptyDict
    ]_vars

C10_Witness ==
  /\ Last.op = "clear_database"
  /\ Last.value = 2
  /\ clients_database = EmptyDict
  /\ upload_stats.total_clients = 0
  /\ upload_stats.filename = None

\* ------------------------------------------- one number, five ways to write it

\* the literal prefixes of the five representations of a number: 0033+d,
\* +33+d, 33+d, 0+d and d alone, d being its nine significant digits
FivePrefixes ==
  << <<"0","0","3","3">>, <<"+","3","3">>, <<"3","3">>, <<"0">>, <<>> >>

Representations(d) == {FivePrefixes[i] \o d : i \in 1..5}

Canonical(d) == <<"0">> \o d

NumberA == <<"6","1","2","3","4","5","6","7","8">>

\* nine digits that begin like a country prefix and end like one
NumberB == <<"3","3","1","2","3","0","0","3","3">>

Numbers == {NumberA, NumberB}

\* the fields of LineA after the phone
RestOfLineA == SubSeq(LineA, 11, Len(LineA))

\* the fields of LineB after the phone
RestOfLineB == SubSeq(LineB, 18, Len(LineB))

\* one line per representation of each number, and NumberA under each
\* representation followed by NumberB
RepTexts ==
  {r \o RestOfLineA : r \in Representations(NumberA)}
    \cup {r \o RestOfLineB : r \in Representations(NumberB)}
    \cup {r \o RestOfLineA \o NL \o NumberB \o RestOfLineB : r \in Representations(NumberA)}

RepPhones == Representations(NumberA) \cup Representations(NumberB)

\* Requests are served one after the other; the thread Uploader serves the
\* uploads and the clears, the thread Looker the lookups, so that ret keeps
\* the last of each.
RepNext ==
  \/ \E c \in RepTexts : UploadFile(Uploader, ConcFilename, c, Still(c, clock))
  \/ \E p \in RepPhones : GetClientInfo(Looker, p)
  \/ ClearDatabase(Uploader)

SpecRepresentations == Init /\ [][RepNext]_vars

\* some line of text carries number d in its phone field, under any of the
\* five representations
LoadedUnder(text, d) ==
  \E i \in 1..Len(LinesOf(text)) :
    strip(split(LinesOf(text)[i], "|")[1]) \in Representations(d)

\* C11: when the directory was loaded from a text that carries number d under
\* one of its five representations, a lookup of d under any of the five
\* representations hits the record stored for d: it returns that record and
\* leaves its call-count one higher.
C11_LookupNormalizesAsLoad ==
  [][\A d \in Numbers : \A p \in Representations(d) :
       ( /\ GetClientInfo(Looker, p)
         /\ ret[Uploader].op = "upload_file"
         /\ LoadedUnder(ret[Uploader].arg, d) ) =>
           /\ Canonical(d) \in DOMAIN clients_database
           /\ ret'[Looker].value = clients_database[Canonical(d)]
           /\ ret'[Looker].value.telephone = Canonical(d)
           /\ clients_database'[Canonical(d)].nb_appels
                = clients_database[Canonical(d)].nb_appels + 1
    ]_vars

\* NumberB loaded as bare digits and looked up with the +33 prefix
C11_Witness ==
  /\ ret[Uploader].op = "upload_file"
  /\ ret[Uploader].arg = NumberB \o RestOfLineB
  /\ ret[Looker].op = "get_client_info"
  /\ ret[Looker].arg = <<"+","3","3">> \o NumberB
  /\ ret[Looker].value.statut = Prospect
  /\ ret[Looker].value.nb_appels = 1
  /\ clients_database[Canonical(NumberB)].nb_appels = 2

\* ---------------------------------------------- normalize_phone on its inputs

\* longest string of the digits 0 and 3 explored
MaxDigits == 13

\* every string of n digits 0 or 3, the two digits the patterns name
RECURSIVE DigitStrings(_)
DigitStrings(n) ==
  IF n = 0 THEN {<<>>}
  ELSE {<<c>> \o s : c \in {"0", "3"}, s \in DigitStrings(n - 1)}

\* s with c put in after its first i characters
Insert(s, i, c) == SubSeq(s, 1, i) \o <<c>> \o SubSeq(s, i + 1, Len(s))

\* the examples of the specification and numbers with other digits
PhoneExamples ==
  { <<"0","0","3","3","6","6","9","2","9","0","6","0","6">>,
    <<"+","3","3","6","6","9","2","9","0","6","0","6">>,
    <<"3","3","6","6","9","2","9","0","6","0","6">>,
    <<"0","6","6","9","2","9","0","6","0","6">>,
    <<"6","6","9","2","9","0","6","0","6">>,
    <<"1","2","3">>,
    <<"1","2","3","4","5","6","7","8","9","0">>,
    <<"0","6",".","1","2",".","3","4",".","5","6",".","7","8">>,
    <<"(","+","3","3",")"," ","6"," ","1","2"," ","3","4"," ","5","6"," ","7","8">>,
    <<"+">>, <<"a","b","c">> }
    \cup RepPhones \cup Phones

\* a valid way of writing a number, with one more "+" put in somewhere
PlusInside ==
  UNION {{Insert(s, i, "+") : i \in 0..Len(s)} :
           s \in Representations(NumberA) \cup {PhoneB}}

NormalizeInputs ==
  UNION {DigitStrings(n) : n \in 0..MaxDigits}
    \cup {<<"+","3","3">> \o d : d \in DigitStrings(9)}
    \cup PhoneExamples \cup PlusInside

\* a function called on its own, outside any request: frame holds the
\* argument, ret receives the result
PureCall(op, inputs) ==
  /\ clients_database = EmptyDict
  /\ upload_stats = [total_clients |-> 0, last_upload |-> None,
                     filename |-> None, banks_detected |-> 0]
  /\ clock = 0
  /\ pc = [t \in Threads |-> IF t = SeqThread THEN "call" ELSE "idle"]
  /\ \E x \in inputs :
       frame = [t \in Threads |->
                  IF t = SeqThread THEN [op |-> op, arg |-> x] ELSE [op |-> "none"]]
  /\ ret = [t \in Threads |-> NoCall]

NormalizePhone ==
  /\ pc[SeqThread] = "call"
  /\ frame[SeqThread].op = "normalize_phone"
  /\ ret' = Returned(SeqThread, "normalize_phone", frame[SeqThread].arg,
                     normalize_phone(frame[SeqThread].arg))
  /\ pc' = [pc EXCEPT ![SeqThread] = "done"]
  /\ UNCHANGED <<clients_database, upload_stats, clock, frame>>

SpecNormalize == PureCall("normalize_phone", NormalizeInputs) /\ [][NormalizePhone]_vars

\* s is the i-th prefix followed by nine digits
HasShape(s, i) ==
  /\ Len(s) = Len(FivePrefixes[i]) + 9
  /\ SubSeq(s, 1, Len(FivePrefixes[i])) = FivePrefixes[i]
  /\ \A j \in (Len(FivePrefixes[i]) + 1)..Len(s) : s[j] \in Digits

\* the nine digits that follow the i-th prefix
NineOf(s, i) == SubSeq(s, Len(FivePrefixes[i]) + 1, Len(s))

\* C12: normalize_phone gives '0'+d for each of 0033+d, +33+d, 33+d, 0+d and
\* d (d nine digits), hence s itself for s = 0 and nine digits, and no result
\* for a string of digits of none of the five shapes.
C12_FiveShapesOneResult ==
  Last.op = "normalize_phone" =>
    /\ \A i \in 1..5 : HasShape(Last.arg, i) => Last.value = Canonical(NineOf(Last.arg, i))
    /\ HasShape(Last.arg, 4) => Last.value = Last.arg
    /\ ( /\ \A j \in 1..Len(Last.arg) : Last.arg[j] \in Digits
         /\ \A i \in 1..5 : ~HasShape(Last.arg, i) ) => Last.value = None

\* 33 followed by nine digits that begin with 33
C12_Witness ==
  /\ Last.op = "normalize_phone"
  /\ Last.arg = <<"3","3">> \o NumberB
  /\ Last.value = Canonical(NumberB)

\* the input as C13 describes its cleaning: the digits, and "+" only where it
\* is the first character kept
DigitsAndLeadingPlus(s) ==
  LET kept == SelectSeq(s, LAMBDA c : c \in Digits \cup {"+"})
  IN  IF kept = <<>> THEN <<>>
      ELSE <<kept[1]>> \o SelectSeq(Tail(kept), LAMBDA c : c \in Digits)

\* C13: a "+" that is not the first character kept is removed before the
\* patterns are tried, so an input that has such a "+" and whose digits form a
\* valid number gets the result of the input without that "+".
C13_InnerPlusIsStripped ==
  ( /\ Last.op = "normalize_phone"
    /\ DigitsAndLeadingPlus(Last.arg)
         # SelectSeq(Last.arg, LAMBDA c : c \in Digits \cup {"+"})
    /\ normalize_phone(DigitsAndLeadingPlus(Last.arg)) # None )
  => Last.value = normalize_phone(DigitsAndLeadingPlus(Last.arg))

\* ------------------------------------------------ IBANDetector on its inputs

\* the IBAN of LineA after its country code
IbanBody == SubSeq(LineA, 59, 83)

\* the same characters in groups of four, as IBANs are printed
IbanBodySpaced ==
  <<"7","6"," ","3","0","0","0"," ","4","0","0","0"," ","0","3","1","2"," ",
    "3","4","5","6"," ","7","8","9","0"," ","1","4","3">>

IbanPrefixes ==
  { <<"F","R">>, <<"f","r">>, <<"F","r">>, <<"D","E">>, <<>>, <<"F"," ","R">>,
    <<"F","-","R">>, <<" ","F","R">>, <<"-">>, <<" ">>, <<"F","R","-">> }

IbanInputs ==
  {p \o SubSeq(IbanBody, 1, n) : p \in IbanPrefixes, n \in 0..Len(IbanBody)}
    \cup {p \o SubSeq(IbanBodySpaced, 1, n) : p \in IbanPrefixes, n \in 0..Len(IbanBodySpaced)}
    \cup { <<"F","R","1">>,
           <<"F","R","7","6","1","2","3","4","5","0","0","0","0","0","0">>,
           SubSeq(LineB, 50, Len(LineB)) }

DetectBank ==
  /\ pc[SeqThread] = "call"
  /\ frame[SeqThread].op = "detect_bank"
  /\ ret' = Returned(SeqThread, "detect_bank", frame[SeqThread].arg,
                     detect_bank(frame[SeqThread].arg))
  /\ pc' = [pc EXCEPT ![SeqThread] = "done"]
  /\ UNCHANGED <<clients_database, upload_stats, clock, frame>>

DetectLocal ==
  /\ pc[SeqThread] = "call"
  /\ frame[SeqThread].op = "detect_local"
  /\ ret' = Returned(SeqThread, "detect_local", frame[SeqThread].arg,
                     detect_local(frame[SeqThread].arg))
  /\ pc' = [pc EXCEPT ![SeqThread] = "done"]
  /\ UNCHANGED <<clients_database, upload_stats, clock, frame>>

SpecClassify ==
  /\ PureCall("detect_bank", IbanInputs) \/ PureCall("detect_local", IbanInputs)
  /\ [][DetectBank \/ DetectLocal]_vars

InvalidIban == <<"I","B","A","N"," ","i","n","v","a","l","i","d","e">>

ForeignBank == <<"B","a","n","q","u","e"," ","é","t","r","a","n","g","è","r","e">>

\* spaces and hyphens removed, uppercased
CanonicalIban(s) ==
  upper(SelectSeq(s, LAMBDA c : c # " " /\ c # "-"))

\* C14 as stated: detect_bank and detect_local return "IBAN invalide" for the
\* empty string and for every input that starts with FR and whose canonical
\* form has fewer than 14 characters.
C14_InvalidForEmptyAndShortFR ==
  ( /\ Last.op \in {"detect_bank", "detect_local"}
    /\ \/ Last.arg = <<>>
       \/ /\ Len(Last.arg) >= 2 /\ SubSeq(Last.arg, 1, 2) = <<"F","R">>
          /\ Len(CanonicalIban(Last.arg)) < 14 )
  => Last.value = InvalidIban

\* C14 amended: for the empty string detect_bank returns "N/A" and
\* detect_local "Banque étrangère"; detect_bank returns "IBAN invalide" for
\* every input that starts with FR and whose canonical form has fewer than 14
\* characters, detect_local for every such input given in canonical form;
\* neither raises.
C14_NAForEmptyInvalidForShortFR ==
  /\ Last.op \in {"detect_bank", "detect_local"} => Last.raised = ""
  /\ Last.op = "detect_bank" =>
       /\ Last.arg = <<>> => Last.value = NA
       /\ ( /\ Len(Last.arg) >= 2 /\ SubSeq(Last.arg, 1, 2) = <<"F","R">>
            /\ Len(CanonicalIban(Last.arg)) < 14 ) => Last.value = InvalidIban
  /\ Last.op = "detect_local" =>
       /\ Last.arg = <<>> => Last.value = ForeignBank
       /\ ( /\ Len(Last.arg) >= 2 /\ SubSeq(Last.arg, 1, 2) = <<"F","R">>
            /\ CanonicalIban(Last.arg) = Last.arg
            /\ Len(Last.arg) < 14 ) => Last.value = InvalidIban

\* 16 characters as given, 13 in canonical form
C14_Witness ==
  /\ Last.op = "detect_bank"
  /\ Last.arg = <<"F","R","7","6"," ","3","0","0","0"," ","4","0","0","0"," ","0">>
  /\ Last.value = InvalidIban

\* ------------------------------------------ who holds which record object
\* A dict is an object: two names for one dict see each other's item
\* assignments. The records stored in clients_database are such objects, and
\* so is the record a caller of get_client_info receives. frame[t].obj tells
\* which object the caller on thread t was given: None for an object of its
\* own, the key k for the very object stored under k. A stored object stops
\* being stored when its key is assigned anew or the directory is rebound; it
\* then lives on with the caller alone. The values of a record (str, int,
\* None) are immutable, so two dicts share nothing that can change.

\* the caller on thread t holds the object stored under a key in keys
Holds(f, t, keys) == f[t].op = "holder" /\ f[t].obj \in keys

\* the objects stored under keys are replaced or dropped
unlink(f, keys) ==
  [u \in Threads |-> IF Holds(f, u, keys) THEN [f[u] EXCEPT !.obj = None] ELSE f[u]]

\* variant of record_copy: client = clients_database[normalized]
record_no_copy(normalized) == normalized

\* the object that clients_database[normalized].copy() evaluates to: a new one
record_copy(normalized) == None

\* a call of get_client_info whose caller keeps the record it returns
HoldLookup(t, phone_number) ==
  /\ \A u \in Threads : pc[u] = "idle"
  /\ LET normalized == normalize_phone(phone_number)
         hit == /\ phone_number # <<>> /\ normalized # None
                /\ normalized \in DOMAIN clients_database
         r   == get_client_info(clients_database, phone_number, clock)
         obj == IF hit THEN record_copy(normalized) ELSE None
     IN  /\ hit => clients_database[normalized].nb_appels < MaxCalls
         /\ clients_database' = r.db
         /\ frame' = [frame EXCEPT ![t] = [op |-> "holder", obj |-> obj]]
         /\ ret' = [u \in Threads |->
                      IF u = t
                      THEN [op |-> "get_client_info", arg |-> phone_number,
                            value |-> IF obj = None THEN r.client ELSE r.db[normalized],
                            raised |-> ""]
                      ELSE IF hit /\ Holds(frame, u, {normalized})
                      THEN [ret[u] EXCEPT !.value = r.db[normalized]]
                      ELSE ret[u]]
  /\ UNCHANGED <<upload_stats, clock, pc>>

\* the caller on thread t assigns item field of the record it was given
HolderSets(t, field, v) ==
  /\ \A u \in Threads : pc[u] = "idle"
  /\ frame[t].op = "holder"
  /\ ret[t].value[field] # v
  /\ LET obj == frame[t].obj
     IN  /\ ret' = [u \in Threads |->
                      IF u = t \/ (obj # None /\ Holds(frame, u, {obj}))
                      THEN [ret[u] EXCEPT !.value[field] = v]
                      ELSE ret[u]]
         /\ clients_database' =
              IF obj # None THEN [clients_database EXCEPT ![obj][field] = v]
              ELSE clients_database
  /\ UNCHANGED <<upload_stats, clock, pc, frame>>

\* POST /upload while callers hold records
HoldUpload(t, filename, content, nows) ==
  /\ \A u \in Threads : pc[u] = "idle"
  /\ filename # <<>>
  /\ endswith(secure_filename(filename), <<".","t","x","t">>)
  /\ nows[1] >= clock
  /\ clock' = nows[Len(nows)]
  /\ LET r == load_clients_from_pipe_file(content, nows)
     IN  /\ clients_database' = r.db
         /\ upload_stats' = [total_clients  |-> dict_len(r.db),
                             last_upload    |-> strftime(nows[Len(nows)]),
                             filename       |-> secure_filename(filename),
                             banks_detected |-> r.banks_detected]
         /\ ret' = [ret EXCEPT ![t] = [op |-> "upload_file", arg |-> content,
                                       value |-> r.loaded_count, raised |-> ""]]
  /\ frame' = [unlink(frame, DOMAIN clients_database) EXCEPT ![t] = [op |-> "none"]]
  /\ UNCHANGED pc

\* GET /clear while callers hold records
HoldClear(t) ==
  /\ \A u \in Threads : pc[u] = "idle"
  /\ ret' = [ret EXCEPT ![t] = [op |-> "clear_database", arg |-> <<>>,
                                value |-> dict_len(clients_database), raised |-> ""]]
  /\ clients_database' = EmptyDict
  /\ upload_stats' = [total_clients |-> 0, last_upload |-> None,
                      filename |-> None, banks_detected |-> 0]
  /\ frame' = [unlink(frame, DOMAIN clients_database) EXCEPT ![t] = [op |-> "none"]]
  /\ UNCHANGED <<clock, pc>>

HoldTexts == {TextA, TextAB}

HoldPhones == {PhoneA, PhoneB}

\* what a caller writes into the record it was given
Scribble == <<"X">>

CopyNext ==
  \/ \E t \in Threads, c \in HoldTexts : HoldUpload(t, ConcFilename, c, Still(c, clock))
  \/ \E t \in Threads, p \in HoldPhones : HoldLookup(t, p)
  \/ \E t \in Threads : HolderSets(t, "nom", Scribble)
  \/ \E t \in Threads : HolderSets(t, "notes", Scribble)
  \/ \E t \in Threads : HoldClear(t)

\* Requests are served one after the other, on either thread; the caller of a
\* lookup keeps the record until its thread serves another request, and may
\* write into it.
SpecCopy == Init /\ [][CopyNext]_vars

\* thread t holds a record a lookup hit returned
HoldsHit(t) ==
  /\ frame[t].op = "holder"
  /\ ret[t].op = "get_client_info"
  /\ ret[t].value.statut = Prospect

\* C15: writing into the record a lookup hit returned leaves the directory as
\* it was, and a record returned by a lookup hit changes only when its holder
\* writes into it: no later lookup, load or clear changes it.
C15_ReturnedRecordIsIndependent ==
  [][\A t \in Threads :
       /\ ( /\ HoldsHit(t)
            /\ HolderSets(t, "nom", Scribble) \/ HolderSets(t, "notes", Scribble) )
          => clients_database' = clients_database
       /\ ( /\ HoldsHit(t)
            /\ frame'[t] = frame[t]
            /\ ~(\E p \in HoldPhones : HoldLookup(t, p)) )
          => \/ ret'[t] = ret[t]
             \/ HolderSets(t, "nom", Scribble) \/ HolderSets(t, "notes", Scribble)
    ]_vars

\* t1 holds the record of PhoneA from the first lookup, changed by its holder;
\* the record was looked up again by t2 and is still stored, unchanged by t1
C15_Witness ==
  /\ HoldsHit("t1") /\ HoldsHit("t2")
  /\ ret["t1"].arg = PhoneA /\ ret["t2"].arg = PhoneA
  /\ ret["t1"].value.nom = Scribble
  /\ ret["t1"].value.nb_appels = 0
  /\ ret["t2"].value.nb_appels = 1
  /\ clients_database[PhoneA].nb_appels = 2
  /\ clients_database[PhoneA].nom = <<"D","U","P","O","N","T">>

\* ------------------------------------------------ invariants of the directory

\* C16: every key of the directory is a canonical phone (10 digits, the first
\* one 0) and is the telephone field of the record stored under it.
C16_KeysAreCanonicalPhones ==
  \A k \in DOMAIN clients_database :
    /\ Len(k) = 10
    /\ k[1] = "0"
    /\ \A i \in 1..Len(k) : k[i] \in Digits
    /\ clients_database[k].telephone = k

\* two records, one loaded from "+33 6 98 76 54 32" and looked up as
\* "06 98 76 54 32"
C16_Witness ==
  /\ DOMAIN clients_database = {PhoneA, <<"0","6","9","8","7","6","5","4","3","2">>}
  /\ Last.op = "get_client_info"
  /\ Last.arg = PhoneB
  /\ Last.value.telephone = <<"0","6","9","8","7","6","5","4","3","2">>

\* C17: every stored record has status Prospect, none has status Unknown
\* ("Non référencé"); a lookup that hits returns status Prospect, and a lookup
\* returns status Unknown only when it misses, for a record that is not stored.
C17_UnknownOnlyOnMiss ==
  /\ \A k \in DOMAIN clients_database :
       /\ clients_database[k].statut = Prospect
       /\ clients_database[k].statut # NonReference
  /\ Last.op = "get_client_info" =>
       /\ LastHit => Last.value.statut = Prospect
       /\ Last.value.statut = NonReference =>
            /\ LastMiss
            /\ \A k \in DOMAIN clients_database : clients_database[k] # Last.value

\* a miss after a hit, both records still Prospect
C17_Witness ==
  /\ LastMiss
  /\ Last.arg = PhoneMiss
  /\ Last.value.statut = NonReference
  /\ Cardinality(DOMAIN clients_database) = 2
  /\ \E k \in DOMAIN clients_database : clients_database[k].nb_appels = 1

\* C18: a load leaves every record it stores with call-count 0; afterwards the
\* call-count of a record that stays in the directory changes only in a lookup
\* that hits its key, and then by +1: a miss, a lookup of another key, a clear
\* and the passing of time leave it as it is; it is never negative.
C18_CountChangesOnlyByHit ==
  [][/\ \A k \in DOMAIN clients_database' : clients_database'[k].nb_appels >= 0
     /\ \A k \in (DOMAIN clients_database') \ (DOMAIN clients_database) :
          clients_database'[k].nb_appels = 0
     /\ \A k \in (DOMAIN clients_database') \cap (DOMAIN clients_database) :
          IF CallStep("upload_file")
          THEN clients_database'[k].nb_appels = 0
          ELSE IF HitStep /\ k = KeyOf(ret'[SeqThread].arg)
          THEN clients_database'[k].nb_appels = clients_database[k].nb_appels + 1
          ELSE clients_database'[k].nb_appels = clients_database[k].nb_appels
    ]_vars

\* a record with two calls next to one with none, before and after which a
\* miss changed nothing
C18_Witness ==
  /\ LastMiss
  /\ clock = 1
  /\ DOMAIN clients_database = {PhoneA, <<"0","6","9","8","7","6","5","4","3","2">>}
  /\ clients_database[PhoneA].nb_appels = 2
  /\ clients_database[<<"0","6","9","8","7","6","5","4","3","2">>].nb_appels = 0

\* the kept lines of text whose phone has canonical form k, by position
LinesFor(text, k) ==
  {i \in 1..Len(KeptLines(text)) :
     normalize_phone(strip(split(KeptLines(text)[i], "|")[1])) = k}

Max(S) == CHOOSE x \in S : \A y \in S : y <= x

\* C19: after a load, a number that several accepted lines of the text
\* normalise to has exactly one record, and its fields are those of the last
\* of these lines.
C19_LastLineWins ==
  Last.op = "upload_file" =>
    \A k \in {normalize_phone(strip(split(KeptLines(Last.arg)[i], "|")[1])) :
                i \in 1..Len(KeptLines(Last.arg))} :
      /\ k \in DOMAIN clients_database
      /\ \E c \in 0..clock :
           clients_database[k] =
             parse_line(KeptLines(Last.arg)[Max(LinesFor(Last.arg, k))], c).record
      /\ \A k2 \in DOMAIN clients_database : normalize_phone(k2) = k => k2 = k

\* the number of LineA2 and LineA, with LineB in between: LineA wins, stamped
\* a second later than LineB
C19_Witness ==
  /\ Last.op = "upload_file"
  /\ Last.arg = TextDup3
  /\ Last.value = 3
  /\ Cardinality(DOMAIN clients_database) = 2
  /\ clients_database[PhoneA].nom = <<"D","U","P","O","N","T">>
  /\ clients_database[PhoneA].prenom = <<"J","e","a","n">>
  /\ clients_database[PhoneA].date_upload
       # clients_database[<<"0","6","9","8","7","6","5","4","3","2">>].date_upload

\* the directory that the request thread t served leaves when nothing runs
\* beside it
LeftBy(t) ==
  IF ret[t].op = "upload_file"
  THEN load_clients_from_pipe_file(ret[t].arg, Still(ret[t].arg, clock)).db
  ELSE EmptyDict

\* C20: once two requests that replace the directory (two loads, or a load and
\* a clear) have run together and both have returned, the directory is the one
\* that one of them leaves when run last: the records of one text, all of
\* them, or none.
C20_ReplacementsSerialize ==
  ( /\ \A t \in Threads :
         /\ pc[t] = "done"
         /\ ret[t].raised = ""
         /\ ret[t].op \in {"upload_file", "clear_database"}
    /\ \E t \in Threads : ret[t].op = "upload_file" )
  => \E t \in Threads : clients_database = LeftBy(t)

\* C21: a lookup that runs while a load replaces the directory completes
\* without raising and returns a stored record's copy (status Prospect) or
\* the Unknown record, also when the directory is replaced between the
\* lookup's membership test and its read of the record.
C21_LookupNeverRaises ==
  \A t \in Threads :
    ret[t].op = "get_client_info" =>
      /\ ret[t].raised = ""
      /\ ret[t].value.statut \in {Prospect, NonReference}

\* --------------------------------------------------- the bank label of a line

\* a line with the phone of LineA and a given IBAN field
LabelLine(iban) ==
  PhoneA \o <<"|","N"," ","P","|","d","|","e","|","a","|","v","|">> \o iban \o <<"|","s">>

\* the IBAN of LineA with another bank code in place of 30004
IbanWithCode(code) == <<"F","R","7","6">> \o code \o SubSeq(LineA, 66, 83)

\* empty; hyphens only; BNP Paribas; foreign; French and too short; a code in
\* local_banks and in codes_ca; a code in neither; lower case in groups; white
\* space only (\x1c); an accented letter in the bank code
LabelIbans ==
  { <<>>,
    <<"-","-">>,
    SubSeq(LineA, 57, 83),
    SubSeq(LineB, 50, Len(LineB)),
    <<"F","R","7","6","3","0","0","0","4">>,
    IbanWithCode(<<"1","8","2","0","6">>),
    IbanWithCode(<<"1","2","3","4","5">>),
    <<"f","r">> \o IbanBodySpaced,
    <<"U+001C">>,
    <<"f","r","7","6","é">> \o SubSeq(LineA, 62, 71) }

\* LineA twice
TextTwice == LineA \o NL \o LineA

LabelTexts == {LabelLine(x) : x \in LabelIbans} \cup {TextTwice, TextDup}

LabelNext ==
  \/ \E c \in LabelTexts :
       \E nows \in LoadReadings(c, clock, MaxClock) :
         UploadFile(SeqThread, ConcFilename, c, nows)
  \/ GetClientInfo(SeqThread, PhoneA)
  \/ ClearDatabase(SeqThread)
  \/ Tick

\* Requests are served one after the other; the uploads differ in the IBAN
\* field of their line.
SpecLabels == Init /\ [][LabelNext]_vars

\* C22: after a load, the bank label of every stored record is "N/A" when its
\* IBAN field is empty and otherwise the label detect_bank returns for that
\* IBAN field.
C22_StoredLabelIsDetectBank ==
  Last.op = "upload_file" =>
    \A k \in DOMAIN clients_database :
      clients_database[k].banque =
        IF clients_database[k].iban = <<>> THEN NA
        ELSE detect_bank(clients_database[k].iban)

\* thread t is inside clear_database, between its first and its last statement
ClearRunning(t) == pc[t] \in {"clear_db", "clear_stats"}

\* C23: whenever no load and no clear is in progress, the total_clients of
\* upload_stats is the number of records in the directory.
C23_TotalClientsIsDirectorySize ==
  (\A t \in Threads : ~LoadRunning(t) /\ ~ClearRunning(t))
    => upload_stats.total_clients = Cardinality(DOMAIN clients_database)

\* the branch code of an IBAN is a key of the bank table: the canonical form
\* starts with FR, has at least 14 characters, and its characters 5 to 9 are
\* a code to which the table gives a name
CodeInTable(iban) ==
  /\ Len(CanonicalIban(iban)) >= 14
  /\ SubSeq(CanonicalIban(iban), 1, 2) = <<"F","R">>
  /\ \E i \in 1..Len(all_banks) :
       /\ all_banks[i][1] = SubSeq(CanonicalIban(iban), 5, 9)
       /\ all_banks[i][2] # <<>>

\* C24: after a load, the banks_detected of upload_stats is the number of
\* stored records whose IBAN branch code is in the bank table, and is at most
\* total_clients.
C24_BanksDetectedCountsStoredRecords ==
  Last.op = "upload_file" =>
    /\ upload_stats.banks_detected =
         Cardinality({k \in DOMAIN clients_database :
                        CodeInTable(clients_database[k].iban)})
    /\ upload_stats.banks_detected <= upload_stats.total_clients

====
